---------------------------- MODULE Spec2Model ----------------------------
(***************************************************************************)
(* Model of the particle simulation engine of ips_unlabeled_learning_web:  *)
(* the seeded generator PRNG (src/src/sim/potentials.ts) and the           *)
(* Euler-Maruyama integrator ParticleSystem (src/src/sim/euler-maruyama.ts)*)
(*                                                                         *)
(* Number representation.                                                  *)
(*  - A 32-bit word is a pair <<hi, lo>> of 16-bit halves, so that the     *)
(*    generator keeps its full width (all arithmetic is mod 2^32).  A      *)
(*    signed Int32 has its hi half in -32768..32767, an unsigned word in   *)
(*    0..65535.                                                            *)
(*  - A uniform sample is represented by its numerator word: the float     *)
(*    returned by next() is numerator / 2^32.                              *)
(*  - Float64 values of positions, gradients and noise live on an integer  *)
(*    fixed-point grid.  Products and sums are exact, a quotient is        *)
(*    rounded towards zero (sign-symmetric, as IEEE rounding is), Math.sqrt*)
(*    is the grid square root, and NaN is one absorbing value.             *)
(***************************************************************************)
EXTENDS Integers, Sequences, FiniteSets, TLC

VARIABLES
    prngs,   \* heap of PRNG objects: sequence of [s |-> four words, draws |-> Nat]
    bufs,    \* heap of Float64Array objects: sequence of sequences of grid values
    sys,     \* the ParticleSystem objects constructed so far
    st,      \* st[i]: the ParticleState the caller of sys[i] holds, or NoState
    hist,    \* hist[i]: the calls made on sys[i], in order
    log,     \* log[i]: the events of the step calls on sys[i], in order
    op,      \* the last call: its name, arguments, pre-state and result
    page     \* the module-level variables of the page script (island) that runs

vars == <<prngs, bufs, sys, st, hist, log, op, page>>

(***************************************************************************)
(* 32-bit word arithmetic                                                  *)
(***************************************************************************)
\* F(e) with e evaluated first and once: call by value, as the program evaluates
Strict(e, F(_)) == CHOOSE y \in {F(x) : x \in {e}} : TRUE

RECURSIVE Pow2(_)
Pow2(n) == IF n = 0 THEN 1 ELSE 2 * Pow2(n - 1)

\* 2^16: a word is hi * Half + lo
Half == Pow2(16)

\* x ^ y on one bit
XorBit(x, y) == IF x = y THEN 0 ELSE 1

\* x | y on one bit
OrBit(x, y) == IF x + y > 0 THEN 1 ELSE 0

\* The 4-bit tables of ^ and |
XorTab ==
    [a \in 0..15, b \in 0..15 |->
        XorBit(a % 2, b % 2) + 2 * XorBit((a \div 2) % 2, (b \div 2) % 2)
        + 4 * XorBit((a \div 4) % 2, (b \div 4) % 2)
        + 8 * XorBit(a \div 8, b \div 8)]

OrTab ==
    [a \in 0..15, b \in 0..15 |->
        OrBit(a % 2, b % 2) + 2 * OrBit((a \div 2) % 2, (b \div 2) % 2)
        + 4 * OrBit((a \div 4) % 2, (b \div 4) % 2)
        + 8 * OrBit(a \div 8, b \div 8)]

\* A bitwise operation on two 16-bit halves, nibble by nibble
Bit16(tab, a, b) ==
    tab[a % 16, b % 16]
    + 16 * tab[(a \div 16) % 16, (b \div 16) % 16]
    + 256 * tab[(a \div 256) % 16, (b \div 256) % 16]
    + 4096 * tab[a \div 4096, b \div 4096]

\* a ^ b on 32-bit words
Xor32(a, b) == <<Bit16(XorTab, a[1], b[1]), Bit16(XorTab, a[2], b[2])>>

\* a | b on 32-bit words
Or32(a, b) == <<Bit16(OrTab, a[1], b[1]), Bit16(OrTab, a[2], b[2])>>

\* (a + b) mod 2^32
Add32(a, b) ==
    LET lo == a[2] + b[2]
    IN  <<(a[1] + b[1] + (lo \div Half)) % Half, lo % Half>>

\* a >>> n, 0 < n < 32
Ushr(a, n) ==
    IF n >= 16
    THEN <<0, a[1] \div Pow2(n - 16)>>
    ELSE <<a[1] \div Pow2(n), (a[1] % Pow2(n)) * Pow2(16 - n) + a[2] \div Pow2(n)>>

\* the bits of a << n, 0 < n < 16
Shl(a, n) ==
    <<(a[1] % Pow2(16 - n)) * Pow2(n) + a[2] \div Pow2(16 - n),
      (a[2] % Pow2(16 - n)) * Pow2(n)>>

\* (x * y) mod 2^16 for 16-bit x, y, through 8-bit limbs
Mul16(x, y) ==
    LET x0 == x % 256
        x1 == x \div 256
        y0 == y % 256
        y1 == y \div 256
    IN  (x0 * y0 + ((x1 * y0 + x0 * y1) % 256) * 256) % Half

\* the carry of x * y into the upper half: (x * y) div 2^16, mod 2^16
MulHi16(x, y) ==
    LET x0 == x % 256
        x1 == x \div 256
        y0 == y % 256
        y1 == y \div 256
        mid == x1 * y0 + x0 * y1
        low == x0 * y0 + (mid % 256) * 256
    IN  (low \div Half + mid \div 256 + x1 * y1) % Half

\* the bits of Math.imul(a, b): the low 32 bits of the product
Imul(a, b) ==
    <<(MulHi16(a[2], b[2]) + Mul16(a[1], b[2]) + Mul16(a[2], b[1])) % Half,
      Mul16(a[2], b[2])>>

\* The reading of a bit pattern as a signed Int32 (what ^, <<, Math.imul return)
ToInt32(w) ==
    <<IF (w[1] % Half) >= 32768 THEN (w[1] % Half) - Half ELSE w[1] % Half, w[2]>>

\* x >>> 0: the reading as an unsigned word (also a store into a Uint32Array)
ToUint32(x) == <<x[1] % Half, x[2]>>

ZeroWord == <<0, 0>>

\* -a mod 2^32
Neg32(a) == Add32(Xor32(a, <<Half - 1, Half - 1>>), <<0, 1>>)

\* new Float64Array(n): n zeros
ZeroArray(n) == [k \in 1..n |-> 0]

(***************************************************************************)
(* PRNG (potentials.ts, class PRNG)                                        *)
(***************************************************************************)
\* 0x9e3779b9, 0x21f0aaad, 0x735a2d97: the SplitMix32 increment and multipliers
Golden == <<40503, 31161>>
MixMul1 == <<8688, 43693>>
MixMul2 == <<29530, 11671>>

\* One round of the constructor's loop body on the advanced seed: lines 298-303.
\* `seed` is the bit pattern of the running seed; ^ and >>> read the double
\* `seed` through ToInt32 / ToUint32, which is exact while |seed| < 2^53.
Mix32(seed) ==
    LET t1 == Xor32(seed, Ushr(seed, 16))
        t2 == Imul(t1, MixMul1)
        t3 == Xor32(t2, Ushr(t2, 15))
        t4 == Imul(t3, MixMul2)
        t5 == Xor32(t4, Ushr(t4, 15))
    IN  ToUint32(t5)

\* Mutant: the loop forgets `seed += 0x9e3779b9`
SeedAfterStuck(seed, i) == seed

\* The running seed after i additions of 0x9e3779b9 (line 297)
RECURSIVE SeedAfter(_, _)
SeedAfter(seed, i) == IF i = 0 THEN seed ELSE Add32(SeedAfter(seed, i - 1), Golden)

\* The state words s[0..3] the constructor stores (1-based here)
SeedWords(seed) == [i \in 1..4 |-> Mix32(SeedAfter(seed, i))]

\* new PRNG(seed).  `draws` counts the calls of next() on this object.
NewPRNG(seed) == [s |-> SeedWords(seed), draws |-> 0]

\* Mutant: the result without the `>>> 0`s, a signed Int32
NextResultSigned(s1) == ToInt32(Imul(Imul(s1, <<0, 5>>), <<0, 7>>))

\* Math.imul(s[1] * 5, 7) >>> 0, and the second >>> 0 of the return: lines 309, 317.
\* s[1] * 5 < 2^35 is exact, and Math.imul reads it through ToInt32.
NextResult(s1) == ToUint32(ToUint32(ToInt32(Imul(Imul(s1, <<0, 5>>), <<0, 7>>))))

\* Mutant: a transition that loses the state: every word is XORed with
\* itself
NextWordsSelfXor(s) == [w \in 1..4 |-> Xor32(s[w], s[w])]

\* The state transition of next(): lines 310-316 (s0..s3 are s[0]..s[3])
NextWords(s) ==
    LET t   == Shl(s[2], 9)
        s2a == Xor32(s[3], s[1])
        s3a == Xor32(s[4], s[2])
        s1a == Xor32(s[2], s2a)
        s0a == Xor32(s[1], s3a)
        s2b == Xor32(s2a, t)
        s3b == Or32(Shl(s3a, 11), Ushr(s3a, 21))
    IN  <<s0a, s1a, s2b, s3b>>

\* next(): the generator after the call and the numerator of the float returned
PrngNext(g) ==
    Strict([s |-> NextWords(g.s), draws |-> g.draws + 1],
           LAMBDA g1 : [g |-> g1, val |-> NextResult(g.s[2])])

\* random(): line 321
PrngRandom(g) == PrngNext(g)

\* round(4 * sqrt(-2 ln x)) at the midpoints x = (k + 1/2) / 8 of the eight
\* bins of u1, and at x = 1e-30 (u1 = 0, where u1 + 1e-30 = 1e-30)
RadiusTab == <<9, 7, 6, 5, 4, 3, 3, 1>>
RadiusAtZero == 47

\* round(4 * cos(2 pi x)) at the midpoints of the eight bins of u2
CosTab == <<4, 2, -2, -4, -4, -2, 2, 4>>

\* Math.sqrt(-2 * Math.log(u1 + 1e-30)) * Math.cos(2 * Math.PI * u2) on the
\* grid, from the numerators of u1 and u2: line 329
BoxMuller(u1, u2) ==
    LET r == IF u1 = ZeroWord THEN RadiusAtZero ELSE RadiusTab[(u1[1] \div 8192) + 1]
        c == CosTab[(u2[1] \div 8192) + 1]
        p == r * c
    IN  IF p < 0 THEN 0 - ((0 - p) \div 4) ELSE p \div 4

\* Mutant: Box-Muller guarding log(0) by drawing u1 again when it is 0
PrngRandnReject(g) ==
    Strict(PrngNext(g), LAMBDA a0 :
    Strict(IF a0.val = ZeroWord THEN PrngNext(a0.g) ELSE a0, LAMBDA a :
    Strict(PrngNext(a.g), LAMBDA b :
        [g |-> b.g, val |-> BoxMuller(a.val, b.val)])))

\* randn(): lines 326-330
PrngRandn(g) ==
    Strict(PrngNext(g), LAMBDA a :
    Strict(PrngNext(a.g), LAMBDA b :
        [g |-> b.g, val |-> BoxMuller(a.val, b.val)]))

\* The loop of randnArray from index i (1-based) on: lines 334-336
RECURSIVE FillNormal(_, _, _)
FillNormal(g, arr, i) ==
    IF i > Len(arr)
    THEN [g |-> g, arr |-> arr]
    ELSE Strict(PrngRandn(g), LAMBDA r :
         Strict([arr EXCEPT ![i] = r.val], LAMBDA arr1 :
             FillNormal(r.g, arr1, i + 1)))

\* Mutant: the loop starts at index 1 instead of 0
PrngRandnArraySkipFirst(g, arr) == FillNormal(g, arr, 2)

\* randnArray(arr): the generator and the buffer contents after the call
PrngRandnArray(g, arr) == FillNormal(g, arr, 1)


(***************************************************************************)
(* Float64 values on the grid                                              *)
(***************************************************************************)
\* The one non-number: NaN (also what arithmetic makes of `undefined`)
NaN == 0 - Pow2(30)

FAdd(a, b) == IF a = NaN \/ b = NaN THEN NaN ELSE a + b
FSub(a, b) == IF a = NaN \/ b = NaN THEN NaN ELSE a - b
FNeg(a) == IF a = NaN THEN NaN ELSE 0 - a
FMul(a, b) == IF a = NaN \/ b = NaN THEN NaN ELSE a * b

\* a / b rounded towards zero; x / 0 is not a finite number
FDiv(a, b) ==
    IF a = NaN \/ b = NaN \/ b = 0 THEN NaN
    ELSE LET q == (IF a < 0 THEN 0 - a ELSE a) \div (IF b < 0 THEN 0 - b ELSE b)
         IN  IF (a < 0) = (b < 0) THEN q ELSE 0 - q

\* Math.max(a, b)
FMax(a, b) == IF a = NaN \/ b = NaN THEN NaN ELSE IF a >= b THEN a ELSE b

RECURSIVE ISqrt(_)
ISqrt(n) ==
    IF n < 2 THEN n
    ELSE LET r == 2 * ISqrt(n \div 4)
         IN  IF (r + 1) * (r + 1) <= n THEN r + 1 ELSE r

\* Math.sqrt(a)
FSqrt(a) == IF a = NaN \/ a < 0 THEN NaN ELSE ISqrt(a)

\* The floor 1e-10 of the distance clamps: the least positive grid value
TinyR == 1

(***************************************************************************)
(* Typed arrays: the heap `bufs`, and subarray views                       *)
(***************************************************************************)
Min(a, b) == IF a <= b THEN a ELSE b
Max(a, b) == IF a >= b THEN a ELSE b

\* buf.subarray(begin, end): a view sharing the buffer, clamped to its length
Subarray(B, ref, begin, end) ==
    LET len == Len(B[ref])
        lo  == Min(Max(begin, 0), len)
        hi  == Min(Max(end, 0), len)
    IN  [buf |-> ref, off |-> lo, len |-> Max(hi - lo, 0)]

\* The whole array as a view
Whole(B, ref) == [buf |-> ref, off |-> 0, len |-> Len(B[ref])]

\* v[k] (0-based) as a number: an index outside the view reads undefined
Rd(B, v, k) == IF k >= 0 /\ k < v.len THEN B[v.buf][v.off + k + 1] ELSE NaN

\* v[k] = x: a store outside the view is ignored
Wr(B, v, k, x) ==
    IF k >= 0 /\ k < v.len THEN [B EXCEPT ![v.buf][v.off + k + 1] = x] ELSE B

\* list[k] (0-based) of a plain number[] parameter
At(list, k) == IF k >= 0 /\ k < Len(list) THEN list[k + 1] ELSE NaN

(***************************************************************************)
(* Potentials (potentials.ts)                                              *)
(***************************************************************************)
\* new HarmonicPotential(k)
HarmonicPotential(k) == [kind |-> "harmonic", k |-> k, a |-> <<>>]

\* new AnisotropicConfinement(a)
AnisotropicConfinement(a) == [kind |-> "aniso", k |-> 0, a |-> a]

\* new InverseInteraction(gamma)
InverseInteraction(gamma) ==
    [kind |-> "inverse", radial |-> TRUE, gamma |-> gamma, A |-> 0, sSq |-> <<>>]

\* new AnisotropicGaussianInteraction(A, s): sSq = s.map(si => si * si)
AnisotropicGaussianInteraction(A, s) ==
    [kind |-> "anisoGauss", radial |-> FALSE, gamma |-> 0, A |-> A,
     sSq |-> [i \in 1..Len(s) |-> FMul(s[i], s[i])]]

\* new QuadraticConfinement(alpha1, alpha2)
QuadraticConfinement(alpha1, alpha2) ==
    [kind |-> "quadratic", alpha1 |-> alpha1, alpha2 |-> alpha2]

\* new DoubleWellPotential()
DoubleWellPotential == [kind |-> "doubleWell"]

\* rSq = sum of x[i] * x[i]: lines 60-61 and 78-79
RECURSIVE NormSq(_, _, _)
NormSq(B, x, i) ==
    IF i >= x.len THEN 0
    ELSE FAdd(FMul(Rd(B, x, i), Rd(B, x, i)), NormSq(B, x, i + 1))

\* QuadraticConfinement.gradient: out[i] = c1 * x[i] + c2 * x[i] with
\* c1 = 0.5 * alpha1 / max(sqrt(rSq), 1e-10) and c2 = 2 * alpha2 (lines 62-65)
QuadraticGradientAt(V, B, x, i) ==
    LET r  == FMax(FSqrt(NormSq(B, x, 0)), TinyR)
        c1 == FDiv(FDiv(V.alpha1, 2), r)
        c2 == FMul(2, V.alpha2)
    IN  FAdd(FMul(c1, Rd(B, x, i)), FMul(c2, Rd(B, x, i)))

\* DoubleWellPotential.gradient: out[i] = (rSq - 1.0) * x[i] (lines 80-81)
DoubleWellGradientAt(V, B, x, i) == FMul(FSub(NormSq(B, x, 0), 1), Rd(B, x, i))

\* V.gradient(x, out) for i from index i on: out[i] = k * x[i] (harmonic),
\* 2 * a[i] * x[i] (anisotropic), or as above
RECURSIVE VGradientFrom(_, _, _, _, _)
VGradientFrom(V, B, x, out, i) ==
    IF i >= x.len THEN B
    ELSE LET g == CASE V.kind = "harmonic" -> FMul(V.k, Rd(B, x, i))
                    [] V.kind = "aniso" -> FMul(FMul(2, At(V.a, i)), Rd(B, x, i))
                    [] V.kind = "quadratic" -> QuadraticGradientAt(V, B, x, i)
                    [] V.kind = "doubleWell" -> DoubleWellGradientAt(V, B, x, i)
         IN  Strict(Wr(B, out, i, g), LAMBDA B1 : VGradientFrom(V, B1, x, out, i + 1))

VGradient(V, B, x, out) == VGradientFrom(V, B, x, out, 0)

\* InverseInteraction.gradient(r) = -gamma / ((r + 1) * (r + 1))
InverseGradient(Phi, r) == FDiv(FNeg(Phi.gamma), FMul(FAdd(r, 1), FAdd(r, 1)))

\* new PiecewiseInteraction(beta1, beta2, eps): the model keeps 1 / eps
PiecewiseInteraction(beta1, beta2, perEps) ==
    [kind |-> "piecewise", radial |-> TRUE, beta1 |-> beta1, beta2 |-> beta2,
     perEps |-> perEps]

\* 1 / cosh(x) ** 2 on the grid: 1 at 0, and below half a unit from |x| = 1 on
Sech2(x) == IF x = NaN THEN NaN ELSE IF x = 0 THEN 1 ELSE 0

\* smoothIndGrad(r, lo, hi) = 0.5 / eps * (sech2Lo - sech2Hi): lines 130-134.
\* The bounds are passed doubled (0.5 is not on the grid).
SmoothIndGrad(Phi, r, lo2, hi2) ==
    FMul(FDiv(Phi.perEps, 2),
         FSub(Sech2(FMul(FSub(FMul(2, r), lo2), Phi.perEps)),
              Sech2(FMul(FSub(FMul(2, r), hi2), Phi.perEps))))

\* PiecewiseInteraction.gradient(r): lines 140-144
PiecewiseGradient(Phi, r) ==
    FAdd(FMul(Phi.beta1, SmoothIndGrad(Phi, r, 1, 2)),
         FMul(Phi.beta2, SmoothIndGrad(Phi, r, 2, 4)))

\* new MorsePotential(D, a, r0)
MorsePotential(D, a, r0) == [kind |-> "morse", radial |-> TRUE, D |-> D, a |-> a, r0 |-> r0]

\* round(Math.exp(x)) for a grid value x, capped at exp(3)
ExpOf(x) ==
    IF x = NaN THEN NaN
    ELSE IF x < 0 THEN 0
    ELSE IF x = 0 THEN 1
    ELSE IF x = 1 THEN 3
    ELSE IF x = 2 THEN 7
    ELSE 20

\* MorsePotential.gradient(r) = 2 * D * a * (1 - e) * e with
\* e = exp(-a * (r - r0)): lines 172-173
MorseGradient(Phi, r) ==
    LET e == ExpOf(FMul(FNeg(Phi.a), FSub(r, Phi.r0)))
    IN  FMul(FMul(FMul(FMul(2, Phi.D), Phi.a), FSub(1, e)), e)

\* round(8 * exp(-e / 2)) for e = 0, 1, ...; 0 from e = 6 on
ExpTab == <<8, 5, 3, 2, 1, 1>>

\* A * Math.exp(-0.5 * e) for e >= 0
ScaledExp(A, e) ==
    IF A = NaN \/ e = NaN THEN NaN
    ELSE IF e + 1 > Len(ExpTab) THEN 0
    ELSE FDiv(FMul(A, ExpTab[e + 1]), 8)

\* the exponent of AnisotropicGaussianInteraction.evaluate: sum of z[i]^2 / sSq[i]
RECURSIVE AnisoExponent(_, _, _, _)
AnisoExponent(Phi, B, z, i) ==
    IF i >= z.len THEN 0
    ELSE FAdd(FDiv(FMul(Rd(B, z, i), Rd(B, z, i)), At(Phi.sSq, i)),
              AnisoExponent(Phi, B, z, i + 1))

\* AnisotropicGaussianInteraction.evaluate(z)
AnisoEvaluate(Phi, B, z) == ScaledExp(Phi.A, AnisoExponent(Phi, B, z, 0))

\* AnisotropicGaussianInteraction.gradient(z, out): out[i] = -phi * z[i] / sSq[i]
RECURSIVE AnisoGradientFrom(_, _, _, _, _, _)
AnisoGradientFrom(Phi, B, z, out, phi, i) ==
    IF i >= z.len THEN B
    ELSE Strict(Wr(B, out, i, FDiv(FMul(FNeg(phi), Rd(B, z, i)), At(Phi.sSq, i))),
                LAMBDA B1 : AnisoGradientFrom(Phi, B1, z, out, phi, i + 1))

AnisoGradient(Phi, B, z, out) ==
    Strict(AnisoEvaluate(Phi, B, z), LAMBDA phi : AnisoGradientFrom(Phi, B, z, out, phi, 0))

\* Lennard-Jones works with fractions: there a grid value v stands for
\* v / Unit, so the literal 4.0 is Num(4)
Unit == Pow2(6)
Num(n) == n * Unit
XMul(a, b) == FDiv(FMul(a, b), Unit)
XDiv(a, b) == FDiv(FMul(a, Unit), b)

\* x ** 6
Pow6(x) == XMul(XMul(XMul(XMul(XMul(x, x), x), x), x), x)

\* 4.0 * epsilon * (sr6 * sr6 - sr6): line 191 (sr6Cut ** 2) and line 198
LJWell(epsilon, sr6) == XMul(XMul(Num(4), epsilon), FSub(XMul(sr6, sr6), sr6))

\* new LennardJonesPotential(epsilon, sigmaLJ, rCut, rSafeFactor): lines 183-192
LennardJonesPotential(epsilon, sigmaLJ, rCut, rSafeFactor) ==
    [kind |-> "lj", radial |-> TRUE, epsilon |-> epsilon, sigmaLJ |-> sigmaLJ,
     rCut |-> rCut, rSafe |-> XMul(rSafeFactor, sigmaLJ),
     shift |-> LJWell(epsilon, Pow6(XDiv(sigmaLJ, rCut)))]

\* Mutant: evaluate without the clamp rc = Math.max(r, rSafe)
LJEvaluateUnclamped(lj, r) ==
    IF r >= lj.rCut THEN 0
    ELSE FSub(LJWell(lj.epsilon, Pow6(XDiv(lj.sigmaLJ, r))), lj.shift)

\* LennardJonesPotential.evaluate(r): lines 194-199
LJEvaluate(lj, r) ==
    IF r >= lj.rCut THEN 0
    ELSE LET rc  == FMax(r, lj.rSafe)
             sr6 == Pow6(XDiv(lj.sigmaLJ, rc))
         IN  FSub(LJWell(lj.epsilon, sr6), lj.shift)

\* LennardJonesPotential.gradient(r): lines 201-206
LJGradient(lj, r) ==
    IF r >= lj.rCut THEN 0
    ELSE LET rc  == FMax(r, lj.rSafe)
             sr6 == Pow6(XDiv(lj.sigmaLJ, rc))
         IN  XMul(XDiv(XMul(Num(4), lj.epsilon), rc),
                  FAdd(XMul(XMul(Num(0 - 12), sr6), sr6), XMul(Num(6), sr6)))

(***************************************************************************)
(* ParticleSystem (euler-maruyama.ts)                                      *)
(***************************************************************************)
\* The caller holds no ParticleState yet
NoState == [positions |-> 0, N |-> 0, d |-> 0]

\* What a constructor call that threw leaves the caller with
NoSystem == [N |-> 0, d |-> 0, prng |-> 0]

\* Mutant: one module-level generator, seeded by the first constructor, that
\* every integrator uses
AllocPrngShared(P, seed) ==
    [ref |-> 1, P |-> IF Len(P) = 0 THEN <<NewPRNG(seed)>> ELSE P]

\* this.prng = new PRNG(seed): a new generator object on the heap of PRNGs
AllocPrng(P, seed) == [ref |-> Len(P) + 1, P |-> Append(P, NewPRNG(seed))]

\* Mutant: a buffer pool that hands out an existing array of the wanted length
AllocArrayPooled(B, n) ==
    IF \E r \in 1..Len(B) : Len(B[r]) = n
    THEN [ref |-> CHOOSE r \in 1..Len(B) : Len(B[r]) = n, B |-> B]
    ELSE [ref |-> Len(B) + 1, B |-> Append(B, ZeroArray(n))]

\* new Float64Array(n) on the heap of arrays
AllocArray(B, n) == [ref |-> Len(B) + 1, B |-> Append(B, ZeroArray(n))]

\* new Float64Array(n) throws a RangeError for a negative length
ArrayLengthOk(n) == n >= 0

\* new ParticleSystem(V, Phi, sigma, dt, N, d, seed): lines 25-41.  The
\* constructor checks nothing itself; it fails only where an allocation throws.
NewParticleSystem(P, B, cfg) ==
    LET g  == AllocPrng(P, cfg.seed)
        b1 == AllocArray(B, cfg.d)
        b2 == AllocArray(b1.B, cfg.d)
        b3 == AllocArray(b2.B, cfg.d)
        b4 == AllocArray(b3.B, cfg.N * cfg.d)
        b5 == AllocArray(b4.B, cfg.d)
    IN  IF ArrayLengthOk(cfg.d) /\ ArrayLengthOk(cfg.N * cfg.d)
        THEN [ok |-> TRUE, P |-> g.P, B |-> b5.B,
              obj |-> [V |-> cfg.V, Phi |-> cfg.Phi, sigma |-> cfg.sigma,
                       dt |-> cfg.dt, N |-> cfg.N, d |-> cfg.d, prng |-> g.ref,
                       gradV |-> b1.ref, gradPhi |-> b2.ref, diff |-> b3.ref,
                       noise |-> b4.ref, gradOut |-> b5.ref]]
        ELSE [ok |-> FALSE, P |-> P, B |-> B, obj |-> NoSystem]

\* Mutant: pos[i] = randn(), std forgotten
RECURSIVE InitFillNoScale(_, _, _, _, _)
InitFillNoScale(g, B, pos, std, i) ==
    IF i >= pos.len
    THEN [g |-> g, B |-> B]
    ELSE Strict(PrngRandn(g), LAMBDA r :
         Strict(Wr(B, pos, i, r.val), LAMBDA B1 :
             InitFillNoScale(r.g, B1, pos, std, i + 1)))

\* The loop of initialize from index i (0-based) on: pos[i] = std * randn()
RECURSIVE InitFill(_, _, _, _, _)
InitFill(g, B, pos, std, i) ==
    IF i >= pos.len
    THEN [g |-> g, B |-> B]
    ELSE Strict(PrngRandn(g), LAMBDA r :
         Strict(Wr(B, pos, i, FMul(std, r.val)), LAMBDA B1 :
             InitFill(r.g, B1, pos, std, i + 1)))

\* initialize(std): lines 44-50
Initialize(S, P, B, std) ==
    Strict(AllocArray(B, S.N * S.d), LAMBDA a :
    Strict(InitFill(P[S.prng], a.B, Whole(a.B, a.ref), std, 0), LAMBDA f :
        [state |-> [positions |-> a.ref, N |-> S.N, d |-> S.d],
         P |-> [P EXCEPT ![S.prng] = f.g],
         B |-> f.B]))

\* getParticle(state, i): line 54
GetParticle(S, B, state, i) == Subarray(B, state.positions, i * S.d, (i + 1) * S.d)

\* An event of a step call on a system: what was done, for which particle
\* (and partner j, coordinate k), on which array, with which noise slot, and
\* how many uniform draws the system's generator had made by then.
Event(S, X, e, call, i, j, k, buf, slot) ==
    [e |-> e, call |-> call, i |-> i, j |-> j, k |-> k, buf |-> buf,
     slot |-> slot, draws |-> X.P[S.prng].draws, val |-> <<>>]

Emit(S, X, e, call, i, j, k, buf, slot) ==
    [X EXCEPT !.log = Append(@, Event(S, X, e, call, i, j, k, buf, slot))]

\* Mutant: the accumulator is not cleared
ZeroFromSkipped(B, v, k, d) == B

\* for (k < d) v[k] = 0: line 72
RECURSIVE ZeroFrom(_, _, _, _)
ZeroFrom(B, v, k, d) ==
    IF k >= d THEN B
    ELSE Strict(Wr(B, v, k, 0), LAMBDA B1 : ZeroFrom(B1, v, k + 1, d))

\* for (k < d) diff[k] = xi[k] - xj[k], rSq += diff[k]^2: lines 79-82 and 93
RECURSIVE DiffFrom(_, _, _, _, _, _, _)
DiffFrom(B, diff, xi, xj, k, d, rSq) ==
    IF k >= d THEN [B |-> B, rSq |-> rSq]
    ELSE Strict(Wr(B, diff, k, FSub(Rd(B, xi, k), Rd(B, xj, k))), LAMBDA B1 :
         Strict(FAdd(rSq, FMul(Rd(B1, diff, k), Rd(B1, diff, k))), LAMBDA rSq1 :
             DiffFrom(B1, diff, xi, xj, k + 1, d, rSq1)))

\* for (k < d) gradPhi[k] += dPhiDr * diff[k] / r: lines 85-87
RECURSIVE AddRadialFrom(_, _, _, _, _, _, _)
AddRadialFrom(B, gradPhi, diff, dPhiDr, r, k, d) ==
    IF k >= d THEN B
    ELSE Strict(Wr(B, gradPhi, k,
                   FAdd(Rd(B, gradPhi, k), FDiv(FMul(dPhiDr, Rd(B, diff, k)), r))),
                LAMBDA B1 : AddRadialFrom(B1, gradPhi, diff, dPhiDr, r, k + 1, d))

\* for (k < d) gradPhi[k] += gradOut[k]: line 95
RECURSIVE AddVectorFrom(_, _, _, _, _)
AddVectorFrom(B, gradPhi, gradOut, k, d) ==
    IF k >= d THEN B
    ELSE Strict(Wr(B, gradPhi, k, FAdd(Rd(B, gradPhi, k), Rd(B, gradOut, k))),
                LAMBDA B1 : AddVectorFrom(B1, gradPhi, gradOut, k + 1, d))

\* Phi.gradient(r) of a radial Phi.  Lennard-Jones computes in fractions of
\* Unit and hands back a grid value.
RadialGradient(Phi, r) ==
    CASE Phi.kind = "inverse" -> InverseGradient(Phi, r)
      [] Phi.kind = "piecewise" -> PiecewiseGradient(Phi, r)
      [] Phi.kind = "morse" -> MorseGradient(Phi, r)
      [] Phi.kind = "lj" -> IF r = NaN THEN NaN ELSE FDiv(LJGradient(Phi, Num(r)), Unit)

\* Phi.gradient(z, out) of a vector Phi
VectorGradient(Phi, B, z, out) == AnisoGradient(Phi, B, z, out)

\* Mutant: the distance is used as the divisor without the floor of line 83
PairTermUnclamped(S, B, xi, xj) ==
    LET diff    == Whole(B, S.diff)
        gradPhi == Whole(B, S.gradPhi)
        gradOut == Whole(B, S.gradOut)
    IN  Strict(DiffFrom(B, diff, xi, xj, 0, S.d, 0), LAMBDA dl :
        IF S.Phi.radial
        THEN Strict(FSqrt(dl.rSq), LAMBDA r :
                 AddRadialFrom(dl.B, gradPhi, diff, RadialGradient(S.Phi, r), r, 0, S.d))
        ELSE Strict(VectorGradient(S.Phi, dl.B, diff, gradOut), LAMBDA B1 :
                 AddVectorFrom(B1, gradPhi, gradOut, 0, S.d)))

\* The body of the loops over j for one j /= i: lines 77-87 (radial) and
\* 92-95 (vector).  xj is read from the state's array as it is now.
PairTerm(S, B, xi, xj) ==
    LET diff    == Whole(B, S.diff)
        gradPhi == Whole(B, S.gradPhi)
        gradOut == Whole(B, S.gradOut)
    IN  Strict(DiffFrom(B, diff, xi, xj, 0, S.d, 0), LAMBDA dl :
        IF S.Phi.radial
        THEN Strict(FMax(FSqrt(dl.rSq), TinyR), LAMBDA r :
                 AddRadialFrom(dl.B, gradPhi, diff, RadialGradient(S.Phi, r), r, 0, S.d))
        ELSE Strict(VectorGradient(S.Phi, dl.B, diff, gradOut), LAMBDA B1 :
                 AddVectorFrom(B1, gradPhi, gradOut, 0, S.d)))

\* Mutant: the loop over j without `if (i === j) continue`
RECURSIVE PairsFromSelf(_, _, _, _, _, _)
PairsFromSelf(S, X, state, call, i, j) ==
    IF j >= S.N THEN X
    ELSE LET xi == GetParticle(S, X.B, state, i)
             xj == GetParticle(S, X.B, state, j)
             X1 == Emit(S, X, "pair", call, i, j, 0 - 1, xj.buf, 0 - 1)
         IN  Strict([X1 EXCEPT !.B = PairTerm(S, X.B, xi, xj)], LAMBDA X2 :
                 PairsFromSelf(S, X2, state, call, i, j + 1))

\* The event that the pair term of particle i due to j was added to gradPhi:
\* val is what the accumulator gained, coordinate by coordinate
TermEvent(S, X, B0, call, i, j) ==
    [Event(S, X, "term", call, i, j, 0 - 1, S.gradPhi, 0 - 1) EXCEPT
        !.val = [k \in 1..S.d |-> FSub(X.B[S.gradPhi][k], B0[S.gradPhi][k])]]

\* The loop over j from j on, for particle i: lines 75-88 and 90-96
RECURSIVE PairsFrom(_, _, _, _, _, _)
PairsFrom(S, X, state, call, i, j) ==
    IF j >= S.N THEN X
    ELSE IF i = j THEN PairsFrom(S, X, state, call, i, j + 1)
    ELSE LET xi == GetParticle(S, X.B, state, i)
             xj == GetParticle(S, X.B, state, j)
             X1 == Emit(S, X, "pair", call, i, j, 0 - 1, xj.buf, 0 - 1)
         IN  Strict([X1 EXCEPT !.B = PairTerm(S, X.B, xi, xj)], LAMBDA X2 :
             Strict([X2 EXCEPT !.log = Append(@, TermEvent(S, X2, X.B, call, i, j))],
                    LAMBDA X3 : PairsFrom(S, X3, state, call, i, j + 1)))

\* Mutant: the average over the N - 1 other particles
RECURSIVE MeanFieldFromOthers(_, _, _, _, _)
MeanFieldFromOthers(B, gradPhi, N, k, d) ==
    IF k >= d THEN B
    ELSE Strict(Wr(B, gradPhi, k, FDiv(Rd(B, gradPhi, k), N - 1)),
                LAMBDA B1 : MeanFieldFromOthers(B1, gradPhi, N, k + 1, d))

\* for (k < d) gradPhi[k] /= N: line 100
RECURSIVE MeanFieldFrom(_, _, _, _, _)
MeanFieldFrom(B, gradPhi, N, k, d) ==
    IF k >= d THEN B
    ELSE Strict(Wr(B, gradPhi, k, FDiv(Rd(B, gradPhi, k), N)),
                LAMBDA B1 : MeanFieldFrom(B1, gradPhi, N, k + 1, d))

\* Mutant: the new coordinate goes into a newly allocated array of the size
\* of the state's, not into xi
RECURSIVE UpdateFromFresh(_, _, _, _, _, _)
UpdateFromFresh(S, X, xi, call, i, k) ==
    IF k >= S.d THEN X
    ELSE LET B     == X.B
             base  == i * S.d
             drift == FSub(FNeg(Rd(B, Whole(B, S.gradV), k)),
                           Rd(B, Whole(B, S.gradPhi), k))
             kick  == FMul(FMul(S.sigma, FSqrt(S.dt)),
                           Rd(B, Whole(B, S.noise), base + k))
             new   == FAdd(Rd(B, xi, k), FAdd(FMul(drift, S.dt), kick))
             a     == AllocArray(B, Len(B[xi.buf]))
             X1    == Emit(S, X, "write", call, i, 0 - 1, k, a.ref, base + k)
         IN  Strict([X1 EXCEPT !.B = Wr(a.B, [xi EXCEPT !.buf = a.ref], k, new)],
                    LAMBDA X2 : UpdateFromFresh(S, X2, xi, call, i, k + 1))

\* xi[k] += (-gradV[k] - gradPhi[k]) * dt + sigma * sqrtDt * noise[base + k]:
\* lines 103-106
RECURSIVE UpdateFrom(_, _, _, _, _, _)
UpdateFrom(S, X, xi, call, i, k) ==
    IF k >= S.d THEN X
    ELSE LET B     == X.B
             base  == i * S.d
             drift == FSub(FNeg(Rd(B, Whole(B, S.gradV), k)),
                           Rd(B, Whole(B, S.gradPhi), k))
             kick  == FMul(FMul(S.sigma, FSqrt(S.dt)),
                           Rd(B, Whole(B, S.noise), base + k))
             new   == FAdd(Rd(B, xi, k), FAdd(FMul(drift, S.dt), kick))
             X1    == Emit(S, X, "write", call, i, 0 - 1, k, xi.buf, base + k)
         IN  Strict([X1 EXCEPT !.B = Wr(B, xi, k, new)], LAMBDA X2 :
                 UpdateFrom(S, X2, xi, call, i, k + 1))

\* The event that `if (this.Phi.radial)` was evaluated for particle i (line
\* 74): val is the branch taken for particle i's pair terms
BranchEvent(S, X, call, i) ==
    [Event(S, X, "branch", call, i, 0 - 1, 0 - 1, S.gradPhi, 0 - 1) EXCEPT
        !.val = <<S.Phi.radial>>]

\* The body of the loop over particles for particle i: lines 66-106
ParticleUpdate(S, X, state, call, i) ==
    LET xi == GetParticle(S, X.B, state, i)
        X0 == Emit(S, X, "gradV", call, i, 0 - 1, 0 - 1, xi.buf, 0 - 1)
        X1 == [X0 EXCEPT !.log = Append(@, BranchEvent(S, X0, call, i))]
    IN  Strict(VGradient(S.V, X.B, xi, Whole(X.B, S.gradV)), LAMBDA B1 :
        Strict(ZeroFrom(B1, Whole(B1, S.gradPhi), 0, S.d), LAMBDA B2 :
        Strict(PairsFrom(S, [X1 EXCEPT !.B = B2], state, call, i, 0), LAMBDA X3 :
        Strict(MeanFieldFrom(X3.B, Whole(X3.B, S.gradPhi), S.N, 0, S.d), LAMBDA B4 :
            UpdateFrom(S, [X3 EXCEPT !.B = B4], xi, call, i, 0)))))

\* The loop over particles from i on: line 65
RECURSIVE ParticlesFrom(_, _, _, _, _)
ParticlesFrom(S, X, state, call, i) ==
    IF i >= S.N THEN X
    ELSE Strict(ParticleUpdate(S, X, state, call, i), LAMBDA X1 :
             ParticlesFrom(S, X1, state, call, i + 1))

\* Mutant: no noise is drawn when sigma is 0
DrawNoiseUnlessQuiet(S, X) ==
    IF S.sigma = 0 THEN X
    ELSE Strict(PrngRandnArray(X.P[S.prng], X.B[S.noise]), LAMBDA r :
             [X EXCEPT !.P[S.prng] = r.g, !.B[S.noise] = r.arr])

\* this.prng.randnArray(this.noise): line 63
DrawNoise(S, X) ==
    Strict(PrngRandnArray(X.P[S.prng], X.B[S.noise]), LAMBDA r :
        [X EXCEPT !.P[S.prng] = r.g, !.B[S.noise] = r.arr])

\* Mutant: the noise of particle i is drawn inside the loop over particles,
\* right before its update
RECURSIVE NoiseSlotsFrom(_, _, _, _)
NoiseSlotsFrom(S, X, i, k) ==
    IF k >= S.d THEN X
    ELSE Strict(PrngRandn(X.P[S.prng]), LAMBDA r :
         Strict([X EXCEPT !.P[S.prng] = r.g,
                          !.B = Wr(X.B, Whole(X.B, S.noise), i * S.d + k, r.val)],
                LAMBDA X1 : NoiseSlotsFrom(S, X1, i, k + 1)))

RECURSIVE ParticlesDrawingFrom(_, _, _, _, _)
ParticlesDrawingFrom(S, X, state, call, i) ==
    IF i >= S.N THEN X
    ELSE Strict(NoiseSlotsFrom(S, X, i, 0), LAMBDA X1 :
         Strict(ParticleUpdate(S, X1, state, call, i), LAMBDA X2 :
             ParticlesDrawingFrom(S, X2, state, call, i + 1)))

StepNoisePerParticle(S, X, state, call) ==
    Strict(Emit(S, X, "begin", call, 0 - 1, 0 - 1, 0 - 1, state.positions, 0 - 1),
           LAMBDA X0 : ParticlesDrawingFrom(S, X0, state, call, 0))

\* step(state): lines 58-108.  X = [P, B, log] is the heap and the system's
\* event log; `call` numbers the step calls on this system.
Step(S, X, state, call) ==
    Strict(Emit(S, X, "begin", call, 0 - 1, 0 - 1, 0 - 1, state.positions, 0 - 1),
           LAMBDA X0 :
    Strict(DrawNoise(S, X0), LAMBDA X1 : ParticlesFrom(S, X1, state, call, 0)))

\* Mutant: the snapshot keeps the state's own array
CopyArrayAlias(B, ref) == [ref |-> ref, B |-> B]

\* new Float64Array(state.positions): a new array with a copy of the contents
CopyArray(B, ref) == [ref |-> Len(B) + 1, B |-> Append(B, B[ref])]

\* trajectory.push({positions: new Float64Array(state.positions), N, d}):
\* lines 113-115 and 120-124.  `after` notes how many steps simulate had made.
Record(S, X, state, traj, after) ==
    Strict(CopyArray(X.B, state.positions), LAMBDA c :
        [X    |-> [X EXCEPT !.B = c.B],
         traj |-> Append(traj, [positions |-> c.ref, N |-> S.N, d |-> S.d,
                                after |-> after])])

\* Mutant: only the periodic recording, the final step forgotten
RecordedPeriodic(s, nSteps) == s % 10 = 0

\* if (s % 10 === 0 || s === nSteps - 1): line 119
Recorded(s, nSteps) == s % 10 = 0 \/ s = nSteps - 1

\* Mutant: the snapshot of an iteration is taken before its step
RECURSIVE SimulateFromRecordFirst(_, _, _, _, _, _)
SimulateFromRecordFirst(S, W, state, call, s, nSteps) ==
    IF s >= nSteps THEN W
    ELSE Strict(IF Recorded(s, nSteps)
                THEN Record(S, W.X, state, W.traj, s + 1)
                ELSE W, LAMBDA W1 :
         Strict(Step(S, W1.X, state, call + s), LAMBDA X1 :
             SimulateFromRecordFirst(S, [X |-> X1, traj |-> W1.traj], state, call,
                                     s + 1, nSteps)))

\* The loop of simulate from s on: lines 117-126.  W = [X, traj]
RECURSIVE SimulateFrom(_, _, _, _, _, _)
SimulateFrom(S, W, state, call, s, nSteps) ==
    IF s >= nSteps THEN W
    ELSE Strict(Step(S, W.X, state, call + s), LAMBDA X1 :
         Strict(IF Recorded(s, nSteps)
                THEN Record(S, X1, state, W.traj, s + 1)
                ELSE [X |-> X1, traj |-> W.traj], LAMBDA W1 :
             SimulateFrom(S, W1, state, call, s + 1, nSteps)))

\* Mutant: simulate starts from a fresh default-seeded generator
SimulateReseeding(S, X, nSteps, initStd, call) ==
    Strict([X EXCEPT !.P[S.prng] = NewPRNG(<<0, 42>>)], LAMBDA X0 :
    Strict(Initialize(S, X0.P, X0.B, initStd), LAMBDA r :
    Strict(Record(S, [X0 EXCEPT !.P = r.P, !.B = r.B], r.state, <<>>, 0), LAMBDA W0 :
        SimulateFrom(S, W0, r.state, call, 0, nSteps))))

\* simulate(nSteps, initStd): lines 111-129; `call` numbers its first step
Simulate(S, X, nSteps, initStd, call) ==
    Strict(Initialize(S, X.P, X.B, initStd), LAMBDA r :
    Strict(Record(S, [X EXCEPT !.P = r.P, !.B = r.B], r.state, <<>>, 0), LAMBDA W0 :
        SimulateFrom(S, W0, r.state, call, 0, nSteps)))

(***************************************************************************)
(* Bounds and inputs                                                       *)
(***************************************************************************)
\* Calls (initialize, step) made on one integrator
MaxCalls == 3
\* Uniform draws after which no further call is made on the generator under test
MaxDraws == 6
\* Length of the buffers handed to randnArray
MaxLen == 3
\* Seeds 0..MaxSeed besides the special ones
MaxSeed == 3
\* Steps made on the integrator that is also driven through simulate
MaxSteps == 12
\* Single steps that make the short simulations
MaxShort == 2
\* The distances handed to a potential are 0, RStep, ..., MaxR * RStep
MaxR == 26
\* The number of further next() calls a claim follows a generator for
MaxAhead == 12

Word(n) == <<n \div Half, n % Half>>

\* The seeds under which SplitMix32 produces a zero word: seed + i * 0x9e3779b9
\* = 0 mod 2^32, for i = 1..4
ZeroingSeeds == {Neg32(SeedAfter(ZeroWord, i)) : i \in 1..4}

\* The seeds the demos use (42 is the default), the extreme bit patterns -1
\* and -2^31, the small seeds and the zeroing seeds
Seeds ==
    {Word(n) : n \in 0..MaxSeed} \cup {Word(42), Word(77), Word(123)}
    \cup {<<Half - 1, Half - 1>>, <<32768, 0>>} \cup ZeroingSeeds

RadialPhi == InverseInteraction(64)
VectorPhi == AnisotropicGaussianInteraction(8, <<2, 4>>)

\* A caller: the configuration it constructs its integrator with, and the
\* std it passes to initialize
Caller(V, Phi, sigma, dt, N, d, seed, std) ==
    [V |-> V, Phi |-> Phi, sigma |-> sigma, dt |-> dt, N |-> N, d |-> d,
     seed |-> Word(seed), std |-> std]

CallerA == Caller(HarmonicPotential(2), RadialPhi, 1, 1, 2, 1, 42, 1)
CallerB == Caller(AnisotropicConfinement(<<1, 2>>), VectorPhi, 1, 1, 2, 2, 42, 2)
CallerC == Caller(HarmonicPotential(1), RadialPhi, 1, 4, 3, 2, 77, 1)
CallerD == Caller(AnisotropicConfinement(<<1, 2>>), VectorPhi, 0, 1, 1, 1, 77, 2)
CallerE == Caller(HarmonicPotential(2), RadialPhi, 1, 1, 1, 2, 123, 1)
\* initialize(0) puts every particle at the origin
CallerF == Caller(HarmonicPotential(2), RadialPhi, 1, 1, 2, 2, 42, 0)
CallerG == Caller(HarmonicPotential(1), MorsePotential(1, 2, 1), 1, 1, 3, 1, 42, 0)

\* The pairs of callers that run side by side: twins, and different ones
CallerPairs ==
    {<<CallerA, CallerA>>, <<CallerB, CallerB>>, <<CallerC, CallerC>>,
     <<CallerA, CallerB>>, <<CallerC, CallerD>>, <<CallerD, CallerA>>}

\* Construction parameters, valid and invalid ones
CtorCallers ==
    {Caller(HarmonicPotential(2), RadialPhi, sigma, dt, N, d, 42, 1) :
        sigma \in {0 - 1, 0, 1}, dt \in {0 - 1, 0, 1}, N \in (0 - 1)..2, d \in (0 - 1)..2}

(***************************************************************************)
(* The calls                                                               *)
(***************************************************************************)
Snapshot == [P |-> prngs, B |-> bufs, st |-> st]

\* No page script runs
NoPage == [island |-> "none"]

NoOp == [name |-> "none", who |-> 0, arg |-> 0, ok |-> TRUE, ret |-> 0, pre |-> <<>>]

\* The calls made on sys[i] after its construction
Calls(i) == Len(hist[i]) - 1

\* The caller of sys[i]
CallerOf(i) == hist[i][1].arg

\* The number of steps the calls of a history made: one per step call, nSteps
\* per simulate call
RECURSIVE StepsOf(_)
StepsOf(h) ==
    IF Len(h) = 0 THEN 0
    ELSE LET e == h[Len(h)]
         IN  StepsOf(SubSeq(h, 1, Len(h) - 1))
             + (IF e.call = "step" THEN 1
                ELSE IF e.call = "simulate" THEN e.arg.nSteps ELSE 0)

\* caller: system = new ParticleSystem(V, Phi, sigma, dt, N, d, seed)
DoConstruct(c) ==
    LET r == NewParticleSystem(prngs, bufs, c)
    IN  /\ prngs' = r.P
        /\ bufs' = r.B
        /\ IF r.ok
           THEN /\ sys' = Append(sys, r.obj)
                /\ st' = Append(st, NoState)
                /\ hist' = Append(hist, <<[call |-> "new", arg |-> c]>>)
                /\ log' = Append(log, <<>>)
           ELSE UNCHANGED <<sys, st, hist, log>>
        /\ op' = [name |-> "new", who |-> Len(sys) + 1, arg |-> c, ok |-> r.ok,
                  ret |-> 0, pre |-> Snapshot]
        /\ UNCHANGED page

\* caller: state = system.initialize(std)
DoInitialize(i) ==
    /\ Calls(i) < MaxCalls
    /\ LET r == Initialize(sys[i], prngs, bufs, CallerOf(i).std)
       IN  /\ prngs' = r.P
           /\ bufs' = r.B
           /\ st' = [st EXCEPT ![i] = r.state]
    /\ hist' = [hist EXCEPT ![i] = Append(@, [call |-> "initialize", arg |-> CallerOf(i).std])]
    /\ op' = [name |-> "initialize", who |-> i, arg |-> CallerOf(i).std, ok |-> TRUE,
              ret |-> 0, pre |-> Snapshot]
    /\ UNCHANGED <<sys, log, page>>

\* caller: system.step(state) on the state it holds
DoStep(i) ==
    /\ Calls(i) < MaxCalls
    /\ st[i] # NoState
    /\ LET X == Step(sys[i], [P |-> prngs, B |-> bufs, log |-> log[i]], st[i],
                     StepsOf(hist[i]) + 1)
       IN  /\ prngs' = X.P
           /\ bufs' = X.B
           /\ log' = [log EXCEPT ![i] = X.log]
    /\ hist' = [hist EXCEPT ![i] = Append(@, [call |-> "step", arg |-> 0])]
    /\ op' = [name |-> "step", who |-> i, arg |-> 0, ok |-> TRUE,
              ret |-> 0, pre |-> Snapshot]
    /\ UNCHANGED <<sys, st, page>>

\* The nSteps the callers pass to simulate: none, a few, and the lengths
\* around the recording period of ten steps
SimLengths == 0..MaxShort \cup (MaxSteps - 2)..MaxSteps

\* caller: trajectory = system.simulate(nSteps, initStd)
DoSimulate(i, nSteps) ==
    /\ Calls(i) < MaxCalls
    /\ StepsOf(hist[i]) + nSteps <= MaxSteps
    /\ LET W == Simulate(sys[i], [P |-> prngs, B |-> bufs, log |-> log[i]], nSteps,
                         CallerOf(i).std, StepsOf(hist[i]) + 1)
       IN  /\ prngs' = W.X.P
           /\ bufs' = W.X.B
           /\ log' = [log EXCEPT ![i] = W.X.log]
           /\ op' = [name |-> "simulate", who |-> i, arg |-> nSteps, ok |-> TRUE,
                     ret |-> W.traj, pre |-> Snapshot]
    /\ hist' = [hist EXCEPT ![i] = Append(@, [call |-> "simulate",
                     arg |-> [nSteps |-> nSteps, std |-> CallerOf(i).std]])]
    /\ UNCHANGED <<sys, st, page>>

\* caller: system.Phi = phi (Phi is a public field: line 27)
DoAssignPhi(i, phi) ==
    /\ Calls(i) < MaxCalls
    /\ sys' = [sys EXCEPT ![i].Phi = phi]
    /\ hist' = [hist EXCEPT ![i] = Append(@, [call |-> "assignPhi", arg |-> phi])]
    /\ op' = [name |-> "assignPhi", who |-> i, arg |-> phi, ok |-> TRUE,
              ret |-> 0, pre |-> Snapshot]
    /\ UNCHANGED <<prngs, bufs, st, log, page>>

AssignPhiCall ==
    \E i \in 1..Len(sys) : \E phi \in {RadialPhi, VectorPhi} : DoAssignPhi(i, phi)

InitializeCall == \E i \in 1..Len(sys) : DoInitialize(i)

SimulateCall == \E i \in 1..Len(sys) : \E nSteps \in SimLengths : DoSimulate(i, nSteps)

StepCall == \E i \in 1..Len(sys) : DoStep(i)

(***************************************************************************)
(* Spec: two integrators side by side, each constructed by a caller with   *)
(* valid parameters                                                        *)
(***************************************************************************)
Init ==
    \E pair \in CallerPairs :
        LET a == NewParticleSystem(<<>>, <<>>, pair[1])
            b == NewParticleSystem(a.P, a.B, pair[2])
        IN  /\ prngs = b.P
            /\ bufs = b.B
            /\ sys = <<a.obj, b.obj>>
            /\ st = <<NoState, NoState>>
            /\ hist = <<<<[call |-> "new", arg |-> pair[1]]>>,
                        <<[call |-> "new", arg |-> pair[2]]>>>>
            /\ log = <<<<>>, <<>>>>
            /\ op = NoOp
            /\ page = NoPage

Next == InitializeCall \/ StepCall

Spec == Init /\ [][Next]_vars

(***************************************************************************)
(* SpecCtor: one caller constructs an integrator from any parameters       *)
(***************************************************************************)
InitCtor ==
    /\ prngs = <<>>
    /\ bufs = <<>>
    /\ sys = <<>>
    /\ st = <<>>
    /\ hist = <<>>
    /\ log = <<>>
    /\ op = NoOp
    /\ page = NoPage

ConstructCall == Len(sys) = 0 /\ \E c \in CtorCallers : DoConstruct(c)

NextCtor == ConstructCall \/ InitializeCall \/ StepCall

SpecCtor == InitCtor /\ [][NextCtor]_vars

(***************************************************************************)
(* SpecPRNG: one generator, called directly                                *)
(***************************************************************************)
InitPRNG ==
    \E seed \in Seeds :
        /\ prngs = <<NewPRNG(seed)>>
        /\ bufs = <<>>
        /\ sys = <<>>
        /\ st = <<>>
        /\ hist = <<<<[call |-> "new", arg |-> seed]>>>>
        /\ log = <<>>
        /\ op = NoOp
        /\ page = NoPage

\* u = prng.random()
RandomCall ==
    /\ prngs[1].draws < MaxDraws
    /\ LET r == PrngRandom(prngs[1])
       IN  /\ prngs' = <<r.g>>
           /\ op' = [name |-> "random", who |-> 0, arg |-> 0, ok |-> TRUE,
                     ret |-> r.val, pre |-> Snapshot]
    /\ UNCHANGED <<bufs, sys, st, hist, log, page>>

\* z = prng.randn()
RandnCall ==
    /\ prngs[1].draws < MaxDraws
    /\ LET r == PrngRandn(prngs[1])
       IN  /\ prngs' = <<r.g>>
           /\ op' = [name |-> "randn", who |-> 0, arg |-> 0, ok |-> TRUE,
                     ret |-> r.val, pre |-> Snapshot]
    /\ UNCHANGED <<bufs, sys, st, hist, log, page>>

\* prng.randnArray(new Float64Array(L))
RandnArrayCall ==
    /\ prngs[1].draws < MaxDraws
    /\ \E L \in 0..MaxLen :
        LET r == PrngRandnArray(prngs[1], ZeroArray(L))
        IN  /\ prngs' = <<r.g>>
            /\ bufs' = <<r.arr>>
            /\ op' = [name |-> "randnArray", who |-> 0, arg |-> L, ok |-> TRUE,
                      ret |-> 0, pre |-> Snapshot]
    /\ UNCHANGED <<sys, st, hist, log, page>>

NextPRNG == RandomCall \/ RandnCall \/ RandnArrayCall

SpecPRNG == InitPRNG /\ [][NextPRNG]_vars

(***************************************************************************)
(* SpecSim: one integrator, driven through initialize, step and simulate   *)
(***************************************************************************)
SimCallerA == Caller(HarmonicPotential(1), RadialPhi, 1, 1, 2, 1, 42, 1)
SimCallerB == Caller(HarmonicPotential(1), VectorPhi, 1, 1, 1, 2, 77, 2)

InitSim ==
    \E c \in {SimCallerA, SimCallerB} :
        LET a == NewParticleSystem(<<>>, <<>>, c)
        IN  /\ prngs = a.P
            /\ bufs = a.B
            /\ sys = <<a.obj>>
            /\ st = <<NoState>>
            /\ hist = <<<<[call |-> "new", arg |-> c]>>>>
            /\ log = <<<<>>>>
            /\ op = NoOp
            /\ page = NoPage

NextSim == InitializeCall \/ StepCall \/ SimulateCall

SpecSim == InitSim /\ [][NextSim]_vars

(***************************************************************************)
(* SpecOne: one integrator of any of the configurations, under four seeds  *)
(***************************************************************************)
OneCallers ==
    {[c EXCEPT !.seed = seed] :
        c \in {CallerA, CallerB, CallerC, CallerD, CallerE, CallerF, CallerG},
        seed \in {Word(7), Word(42), Word(77), Word(123)}}

InitOne ==
    \E c \in OneCallers :
        LET a == NewParticleSystem(<<>>, <<>>, c)
        IN  /\ prngs = a.P
            /\ bufs = a.B
            /\ sys = <<a.obj>>
            /\ st = <<NoState>>
            /\ hist = <<<<[call |-> "new", arg |-> c]>>>>
            /\ log = <<<<>>>>
            /\ op = NoOp
            /\ page = NoPage

NextOne == InitializeCall \/ StepCall

SpecOne == InitOne /\ [][NextOne]_vars

(***************************************************************************)
(* SpecPhi: one integrator whose caller also assigns its public field Phi  *)
(***************************************************************************)
InitPhi ==
    \E c \in {CallerA, CallerB, CallerC} :
        LET a == NewParticleSystem(<<>>, <<>>, c)
        IN  /\ prngs = a.P
            /\ bufs = a.B
            /\ sys = <<a.obj>>
            /\ st = <<NoState>>
            /\ hist = <<<<[call |-> "new", arg |-> c]>>>>
            /\ log = <<<<>>>>
            /\ op = NoOp
            /\ page = NoPage

NextPhi == InitializeCall \/ StepCall \/ AssignPhiCall

SpecPhi == InitPhi /\ [][NextPhi]_vars

(***************************************************************************)
(* SpecPot: a caller evaluates a Lennard-Jones potential and its gradient  *)
(***************************************************************************)
\* A sixteenth
RStep == Unit \div 16

\* epsilon 0.5 or 1, sigmaLJ 0.5 or 1, rCut 0.75 or 1.5, rSafeFactor about 0.7
\* (the default), 1 or 1.25
LJPotentials ==
    {LennardJonesPotential(epsilon, sigmaLJ, rCut, rSafeFactor) :
        epsilon \in {Unit \div 2, Unit}, sigmaLJ \in {Unit \div 2, Unit},
        rCut \in {12 * RStep, 24 * RStep},
        rSafeFactor \in {11 * RStep, Unit, 20 * RStep}}

Distances == {k * RStep : k \in 0..MaxR}

InitPot ==
    \E lj \in LJPotentials :
        /\ prngs = <<>>
        /\ bufs = <<>>
        /\ sys = <<lj>>
        /\ st = <<>>
        /\ hist = <<>>
        /\ log = <<>>
        /\ op = NoOp
        /\ page = NoPage

\* v = Phi.evaluate(r)
EvaluateCall ==
    /\ \E r \in Distances :
           op' = [name |-> "evaluate", who |-> 1, arg |-> r, ok |-> TRUE,
                  ret |-> LJEvaluate(sys[1], r), pre |-> <<>>]
    /\ UNCHANGED <<prngs, bufs, sys, st, hist, log, page>>

\* g = Phi.gradient(r)
GradientCall ==
    /\ \E r \in Distances :
           op' = [name |-> "gradient", who |-> 1, arg |-> r, ok |-> TRUE,
                  ret |-> LJGradient(sys[1], r), pre |-> <<>>]
    /\ UNCHANGED <<prngs, bufs, sys, st, hist, log, page>>

NextPot == EvaluateCall \/ GradientCall

SpecPot == InitPot /\ [][NextPot]_vars

(***************************************************************************)
(* The potential explorer (islands/PotentialExplorer.ts): a tabbed page    *)
(* that looks a model up by key, constructs an integrator for it and       *)
(* animates it.  Its parameters are given in grid units, rounded to the    *)
(* nearest one: 0.005 and 0.1 are 0, and 0.5 and 0.8 are 1.                *)
(***************************************************************************)
\* `undefined`, as an object reference
Undefined == [kind |-> "undefined"]

\* MODELS: potentials.ts lines 243-284
MODELS ==
    [model_a |-> [name |-> "model_a", V |-> QuadraticConfinement(0 - 1, 2),
                  Phi |-> PiecewiseInteraction(0 - 3, 2, 20), sigma |-> 0],
     model_b |-> [name |-> "model_b", V |-> DoubleWellPotential,
                  Phi |-> InverseInteraction(1), sigma |-> 0],
     model_lj |-> [name |-> "model_lj", V |-> HarmonicPotential(2),
                   Phi |-> LennardJonesPotential(Unit \div 2, Unit \div 2, 40 * RStep,
                                                 11 * RStep),
                   sigma |-> 0],
     model_morse |-> [name |-> "model_morse", V |-> DoubleWellPotential,
                      Phi |-> MorsePotential(1, 2, 1), sigma |-> 0],
     model_aniso |-> [name |-> "model_aniso", V |-> AnisotropicConfinement(<<1, 4>>),
                      Phi |-> AnisotropicGaussianInteraction(2, <<1, 2>>), sigma |-> 0]]

\* Property names every object literal inherits from Object.prototype
ObjectPrototype ==
    {"constructor", "toString", "valueOf", "hasOwnProperty", "__proto__"}

\* What MODELS inherits under such a name: a function or object, which is
\* truthy and has no property V, Phi or sigma
Inherited == [kind |-> "inherited"]

\* MODELS[modelKey]: a property read on an object literal finds own
\* properties, then inherited ones, and gives undefined otherwise
Lookup(modelKey) ==
    IF modelKey \in DOMAIN MODELS THEN MODELS[modelKey]
    ELSE IF modelKey \in ObjectPrototype THEN Inherited
    ELSE Undefined

\* config.V, config.Phi: undefined where the object has no such property
Ref(config, f) == IF f \in DOMAIN config THEN config[f] ELSE Undefined

\* config.sigma as a number
Number(config, f) == IF f \in DOMAIN config THEN config[f] ELSE NaN

\* The literals of line 23 and 24 on the grid: dt = 0.005 and std = 0.8
ExplorerDt == 0
ExplorerStd == 1

\* N = 10 particles in the page; the model animates ExplorerN of them
ExplorerN == 2

\* The heap and the page's variables, as one value
Heap ==
    [P |-> prngs, B |-> bufs, sys |-> sys, st |-> st, hist |-> hist, log |-> log,
     page |-> page]

\* initModel(modelKey): lines 19-25
InitModel(H, modelKey) ==
    LET config == Lookup(modelKey)
    IN  IF config = Undefined THEN H
        ELSE LET c == Caller(Ref(config, "V"), Ref(config, "Phi"),
                             Number(config, "sigma"), ExplorerDt, ExplorerN, 2, 42,
                             ExplorerStd)
                 r == NewParticleSystem(H.P, H.B, c)
             IN  Strict(Initialize(r.obj, r.P, r.B, ExplorerStd), LAMBDA f :
                 [P |-> f.P, B |-> f.B,
                  sys |-> Append(H.sys, r.obj),
                  st |-> Append(H.st, f.state),
                  hist |-> Append(H.hist, <<[call |-> "new", arg |-> c],
                                            [call |-> "initialize", arg |-> ExplorerStd]>>),
                  log |-> Append(H.log, <<>>),
                  page |-> [H.page EXCEPT !.currentModel = modelKey,
                                          !.system = Len(H.sys) + 1,
                                          !.state = f.state]])

\* system.step(state) throws a TypeError at `this.V.gradient` (line 69 of
\* euler-maruyama.ts) when V is undefined and there is a particle
StepThrows(S) == S.N > 0 /\ S.V = Undefined

\* for (s < 3) system.step(state): line 140
RECURSIVE StepTimes(_, _, _, _, _)
StepTimes(S, X, state, call, n) ==
    IF n = 0 THEN X
    ELSE Strict(Step(S, X, state, call), LAMBDA X1 :
             StepTimes(S, X1, state, call + 1, n - 1))

\* drawSim(): lines 132-189, as the call at load or as a frame callback.
\* `pending` counts the drawSim callbacks registered with
\* requestAnimationFrame and not yet run; `last` notes what the steps used.
DrawSim(H) ==
    LET i == H.page.system
    IN  IF i = 0 \/ H.page.state = NoState THEN H
        ELSE LET S == H.sys[i]
                 X == [P |-> H.P, B |-> H.B, log |-> H.log[i]]
                 used == [system |-> i, state |-> H.page.state, threw |-> StepThrows(S)]
             IN  IF StepThrows(S)
                 THEN Strict(DrawNoise(S, X), LAMBDA X1 :
                      [H EXCEPT !.P = X1.P, !.B = X1.B, !.page.last = used])
                 ELSE Strict(StepTimes(S, X, H.page.state, StepsOf(H.hist[i]) + 1, 3),
                             LAMBDA X3 :
                      [H EXCEPT !.P = X3.P, !.B = X3.B, !.log[i] = X3.log,
                                !.hist[i] = @ \o [k \in 1..3 |-> [call |-> "step", arg |-> 0]],
                                !.page.last = used,
                                !.page.pending = @ + 1])

\* The page before its script has run
BlankExplorer ==
    [island |-> "explorer", currentModel |-> "model_a", system |-> 0,
     state |-> NoState, pending |-> 0, last |-> [system |-> 0, state |-> NoState,
                                               threw |-> FALSE],
     clicks |-> 0, frames |-> 0]

\* The script: initModel('model_a'); drawCurves(); drawSim(): lines 191-193
LoadExplorer ==
    DrawSim(InitModel([P |-> <<>>, B |-> <<>>, sys |-> <<>>, st |-> <<>>,
                       hist |-> <<>>, log |-> <<>>, page |-> BlankExplorer],
                      "model_a"))

Install(H) ==
    /\ prngs' = H.P
    /\ bufs' = H.B
    /\ sys' = H.sys
    /\ st' = H.st
    /\ hist' = H.hist
    /\ log' = H.log
    /\ page' = H.page

MaxClicks == 2
MaxFrames == 2

\* The data-model attributes of the tabs: the five models, a tab without the
\* attribute, a key MODELS does not have, and a name MODELS inherits
TabModels == DOMAIN MODELS \cup {"", "model_x", "constructor"}

\* A click on a tab: lines 28-34.  drawCurves() changes the canvas only.
TabClick ==
    /\ page.clicks < MaxClicks
    /\ \E dataset \in TabModels :
        LET modelKey == IF dataset = "" THEN "model_a" ELSE dataset
        IN  /\ Install([InitModel(Heap, modelKey) EXCEPT !.page.clicks = @ + 1])
            /\ op' = [name |-> "initModel", who |-> 0, arg |-> modelKey, ok |-> TRUE,
                      ret |-> 0, pre |-> Heap]

\* The browser runs a pending drawSim callback
Frame ==
    /\ page.frames < MaxFrames
    /\ page.pending > 0
    /\ Install([DrawSim([Heap EXCEPT !.page.pending = @ - 1]) EXCEPT !.page.frames = @ + 1])
    /\ op' = [name |-> "drawSim", who |-> 0, arg |-> 0, ok |-> TRUE, ret |-> 0,
              pre |-> Heap]

InitExplorer ==
    LET H == LoadExplorer
    IN  /\ prngs = H.P
        /\ bufs = H.B
        /\ sys = H.sys
        /\ st = H.st
        /\ hist = H.hist
        /\ log = H.log
        /\ page = H.page
        /\ op = NoOp

NextExplorer == TabClick \/ Frame

SpecExplorer == InitExplorer /\ [][NextExplorer]_vars

(***************************************************************************)
(* The shuffle demo (islands/ShuffleDemo.ts): a button scrambles the       *)
(* matching between two snapshots, and the canvas animates the change.     *)
(* animProgress is counted in hundredths.                                  *)
(***************************************************************************)
\* N = 8 particles in the page; the model matches ShuffleN of them
ShuffleN == 4

\* animProgress = 1 (line 32) and the 0.03 a frame adds (line 73)
AnimDone == 100
AnimStep == 3

\* Array.from({ length: N }, (_, i) => i): lines 30, 38 and 42
Identity == [i \in 1..ShuffleN |-> i - 1]

\* [matching[i], matching[j]] = [matching[j], matching[i]]: line 45
Swap(m, i, j) == [m EXCEPT ![i + 1] = m[j + 1], ![j + 1] = m[i + 1]]

\* The loop of lines 43-46 from i down to 1; js[i] is the value of
\* Math.floor(Math.random() * (i + 1)) in round i
RECURSIVE FisherYates(_, _, _)
FisherYates(m, i, js) ==
    IF i <= 0 THEN m ELSE FisherYates(Swap(m, i, js[i]), i - 1, js)

\* What Math.floor(Math.random() * (i + 1)) can be in the rounds: any of 0..i
RandomIndices == {js \in [1..(ShuffleN - 1) -> 0..(ShuffleN - 1)] :
                     \A i \in 1..(ShuffleN - 1) : js[i] <= i}

\* Mutant: the click handler without the guard of line 35
ClickUnguarded(p, js) ==
    IF p.shuffled
    THEN [p EXCEPT !.matching = Identity, !.shuffled = FALSE, !.animProgress = 0]
    ELSE [p EXCEPT !.matching = FisherYates(Identity, ShuffleN - 1, js),
                   !.shuffled = TRUE, !.animProgress = 0]

\* The click handler of the shuffle button: lines 34-50
Click(p, js) ==
    IF p.animProgress < AnimDone THEN p
    ELSE IF p.shuffled
    THEN [p EXCEPT !.matching = Identity, !.shuffled = FALSE, !.animProgress = 0]
    ELSE [p EXCEPT !.matching = FisherYates(Identity, ShuffleN - 1, js),
                   !.shuffled = TRUE, !.animProgress = 0]

\* The animation update of draw(): lines 72-74
Advance(p) ==
    IF p.animProgress < AnimDone
    THEN [p EXCEPT !.animProgress = Min(AnimDone, p.animProgress + AnimStep)]
    ELSE p

\* A click on the shuffle button
ShuffleClick ==
    /\ page.island = "shuffle"
    /\ \E js \in RandomIndices :
           /\ page' = Click(page, js)
           /\ op' = [name |-> "click", who |-> 0, arg |-> 0, ok |-> TRUE, ret |-> 0,
                     pre |-> page]
    /\ UNCHANGED <<prngs, bufs, sys, st, hist, log>>

\* The browser runs the pending draw callback, which registers itself again
\* (line 156)
DrawFrame ==
    /\ page.island = "shuffle"
    /\ page' = Advance(page)
    /\ op' = [name |-> "draw", who |-> 0, arg |-> 0, ok |-> TRUE, ret |-> 0,
              pre |-> page]
    /\ UNCHANGED <<prngs, bufs, sys, st, hist, log>>

\* The page after the script has run: lines 30-32 and the draw() of line 161,
\* which finds animProgress at 1
InitShuffle ==
    /\ prngs = <<>>
    /\ bufs = <<>>
    /\ sys = <<>>
    /\ st = <<>>
    /\ hist = <<>>
    /\ log = <<>>
    /\ op = NoOp
    /\ page = [island |-> "shuffle", matching |-> Identity, shuffled |-> FALSE,
               animProgress |-> AnimDone]

NextShuffle == ShuffleClick \/ DrawFrame

\* The browser keeps running animation frames
SpecShuffle == InitShuffle /\ [][NextShuffle]_vars /\ WF_vars(DrawFrame)

(***************************************************************************)
(* The results dashboard (islands/ResultsDashboard.ts): buttons select a   *)
(* table, whose data file is fetched and rendered as a heatmap.            *)
(***************************************************************************)
\* The renderer renderHeatmap picks while table t is selected: lines 50-54
RendererFor(t) == IF t = "cross_method" THEN "cross_method" ELSE "dt_sweep"

\* The rows of a data file carry the columns of its own table.  A renderer
\* given the rows of the other table reads an undefined column, and
\* addDataCell throws a TypeError at value.toFixed (line 94).
RenderThrows(renderer, data) == renderer # data

\* renderHeatmap(data) for the non-empty rows of the file of table `data`,
\* inside the try of loadAndRender: lines 46-55, and the catch of line 28
RenderHeatmap(p, data) ==
    LET renderer == RendererFor(p.currentTable)
    IN  IF RenderThrows(renderer, data)
        THEN [p EXCEPT !.shown = [kind |-> "text", data |-> data, renderer |-> renderer]]
        ELSE [p EXCEPT !.shown = [kind |-> "heatmap", data |-> data,
                                  renderer |-> renderer]]

\* loadAndRender() up to its first await: the URL is built from the table
\* selected now (line 24)
LoadAndRender(p) ==
    [p EXCEPT !.fetches = Append(@, [table |-> p.currentTable, stage |-> "fetch",
                                     outcome |-> "none"])]

\* The catch block: line 28
ShowLoading(p, data) ==
    [p EXCEPT !.shown = [kind |-> "text", data |-> data, renderer |-> "none"]]

\* The data-table attributes of the buttons: the two tables, and a button
\* without the attribute
TableButtons == {"cross_method", "dt_sweep", ""}

\* A click on a table button: lines 13-18
TableClick ==
    /\ page.island = "dashboard"
    /\ page.clicks < MaxClicks
    /\ \E dataset \in TableButtons :
        LET t == IF dataset = "" THEN "cross_method" ELSE dataset
        IN  /\ page' = LoadAndRender([page EXCEPT !.currentTable = t, !.clicks = @ + 1])
            /\ op' = [name |-> "click", who |-> 0, arg |-> t, ok |-> TRUE, ret |-> 0,
                      pre |-> page]
    /\ UNCHANGED <<prngs, bufs, sys, st, hist, log>>

\* The fetch of request f settles (line 24): with a response, or rejected
FetchSettles ==
    /\ page.island = "dashboard"
    /\ \E f \in 1..Len(page.fetches) : \E ok \in BOOLEAN :
        /\ page.fetches[f].stage = "fetch"
        /\ page' = IF ok
                   THEN [page EXCEPT !.fetches[f].stage = "json"]
                   ELSE [ShowLoading(page, page.fetches[f].table) EXCEPT
                            !.fetches[f].stage = "done",
                            !.fetches[f].outcome = "failed"]
        /\ op' = [name |-> "fetch", who |-> f, arg |-> ok, ok |-> ok, ret |-> 0,
                  pre |-> page]
    /\ UNCHANGED <<prngs, bufs, sys, st, hist, log>>

\* resp.json() of request f settles (line 25) and the rest of loadAndRender
\* runs: the body has rows, has none, or is not JSON
JsonSettles ==
    /\ page.island = "dashboard"
    /\ \E f \in 1..Len(page.fetches) : \E body \in {"rows", "empty", "failed"} :
        /\ page.fetches[f].stage = "json"
        /\ LET p == [page EXCEPT !.fetches[f].stage = "done",
                                 !.fetches[f].outcome = body]
               t == page.fetches[f].table
           IN  page' = CASE body = "rows" -> RenderHeatmap(p, t)
                         [] body = "empty" -> p
                         [] body = "failed" -> ShowLoading(p, t)
        /\ op' = [name |-> "json", who |-> f, arg |-> body, ok |-> TRUE, ret |-> 0,
                  pre |-> page]
    /\ UNCHANGED <<prngs, bufs, sys, st, hist, log>>

\* The page after the script has run: currentTable of line 10 and the
\* loadAndRender() of line 191
InitDash ==
    /\ prngs = <<>>
    /\ bufs = <<>>
    /\ sys = <<>>
    /\ st = <<>>
    /\ hist = <<>>
    /\ log = <<>>
    /\ op = NoOp
    /\ page = LoadAndRender([island |-> "dashboard", currentTable |-> "cross_method",
                             fetches |-> <<>>,
                             shown |-> [kind |-> "none", data |-> "none",
                                        renderer |-> "none"],
                             clicks |-> 0])

NextDash == TableClick \/ FetchSettles \/ JsonSettles

SpecDash == InitDash /\ [][NextDash]_vars

(***************************************************************************)
(* Claims about the generator, under SpecPRNG                              *)
(***************************************************************************)
\* The generator reached from g by n successive randn() calls
RECURSIVE AfterRandn(_, _)
AfterRandn(g, n) ==
    IF n = 0 THEN g
    ELSE Strict(AfterRandn(g, n - 1), LAMBDA g1 : PrngRandn(g1).g)

\* The value the n-th successive randn() call (n >= 1) returns from g
NthRandn(g, n) == PrngRandn(AfterRandn(g, n - 1)).val

AllZero(s) == \A w \in 1..4 : s[w] = ZeroWord

\* C6: for every seed, the four state words the constructor stores are not
\* all zero.
C6_SeedStateNotAllZero ==
    op.name = "none" => ~AllZero(prngs[1].s)

\* C6 witness: a freshly seeded generator one of whose words is zero (the
\* seed cancels the increment), and still not all are
C6_Witness ==
    /\ op.name = "none"
    /\ \E w \in 1..4 : prngs[1].s[w] = ZeroWord
    /\ hist[1][1].arg \in ZeroingSeeds

\* C7: every randn() call advances the generator by exactly two uniform
\* draws, whatever the values drawn.
C7_RandnTwoDraws ==
    op.name = "randn" =>
        /\ prngs[1].draws = op.pre.P[1].draws + 2
        /\ prngs[1].s = NextWords(NextWords(op.pre.P[1].s))

\* C7 witness: a randn() call whose first uniform draw was exactly 0
C7_Witness ==
    /\ op.name = "randn"
    /\ PrngNext(op.pre.P[1]).val = ZeroWord

\* C8: randnArray(buffer) writes into element k the value of the k-th
\* successive randn() call from the same starting state and leaves the
\* generator where L randn() calls leave it (L = 0: unchanged).
C8_RandnArrayIsSuccessiveRandn ==
    op.name = "randnArray" =>
        /\ Len(bufs[1]) = op.arg
        /\ \A k \in 1..op.arg : bufs[1][k] = NthRandn(op.pre.P[1], k)
        /\ prngs[1] = AfterRandn(op.pre.P[1], op.arg)
        /\ op.arg = 0 => prngs[1] = op.pre.P[1]

\* C8 witness: a buffer of at least two elements filled with different values,
\* by a generator that had already been used
C8_Witness ==
    /\ op.name = "randnArray"
    /\ op.arg >= 2
    /\ bufs[1][1] # bufs[1][2]
    /\ op.pre.P[1].draws > 0

\* C9: random() advances the state by one generator step and returns
\* numerator / 2^32 with the numerator an unsigned 32-bit integer, so the
\* value is in [0, 1).
C9_RandomInUnitInterval ==
    op.name = "random" =>
        /\ op.ret[1] \in 0..(Half - 1)
        /\ op.ret[2] \in 0..(Half - 1)
        /\ prngs[1].draws = op.pre.P[1].draws + 1
        /\ prngs[1].s = NextWords(op.pre.P[1].s)

\* C9 witness: a random() call whose numerator has its top bit set (the
\* values a signed reading would make negative)
C9_Witness ==
    /\ op.name = "random"
    /\ op.ret[1] >= 32768

(***************************************************************************)
(* Claims about the integrator, under Spec (C5 under SpecCtor)             *)
(***************************************************************************)
Systems == 1..Len(sys)

\* The contents of the position array the caller of sys[i] holds
Positions(i) == bufs[st[i].positions]

\* The arrays sys[i] allocated for itself at construction
Scratch(S) == {S.gradV, S.gradPhi, S.diff, S.noise, S.gradOut}

\* C1: in a step call no pair term of particle i reads particle j from an
\* array in which j was already written earlier in the same call.
C1_NoSameStepLeakage ==
    \A i \in Systems : \A p \in 1..Len(log[i]) : \A q \in 1..Len(log[i]) :
        ~ /\ p < q
          /\ log[i][p].call = log[i][q].call
          /\ log[i][p].e = "write"
          /\ log[i][q].e = "pair"
          /\ log[i][q].j = log[i][p].i
          /\ log[i][q].buf = log[i][p].buf

\* C2: two integrators constructed with the same parameters that received
\* the same sequence of calls hold identical position arrays (and generators).
C2_Determinism ==
    hist[1] = hist[2] =>
        /\ (st[1] = NoState) = (st[2] = NoState)
        /\ st[1] # NoState => Positions(1) = Positions(2)
        /\ prngs[sys[1].prng] = prngs[sys[2].prng]

\* C2 witness: twins that both were initialized and stepped twice
C2_Witness ==
    /\ hist[1] = hist[2]
    /\ StepsOf(hist[1]) >= 2
    /\ \E k \in 1..Len(Positions(1)) : Positions(1)[k] # 0

\* The run of one integrator alone in the world, through the first n entries
\* of history h (entry 1 is its construction)
RECURSIVE Alone(_, _)
Alone(h, n) ==
    IF n = 1
    THEN Strict(NewParticleSystem(<<>>, <<>>, h[1].arg), LAMBDA r :
             [P |-> r.P, B |-> r.B, log |-> <<>>, obj |-> r.obj, state |-> NoState])
    ELSE Strict(Alone(h, n - 1), LAMBDA W :
         IF h[n].call = "initialize"
         THEN Strict(Initialize(W.obj, W.P, W.B, h[n].arg), LAMBDA r :
                  [W EXCEPT !.P = r.P, !.B = r.B, !.state = r.state])
         ELSE Strict(Step(W.obj, [P |-> W.P, B |-> W.B, log |-> W.log], W.state,
                          StepsOf(SubSeq(h, 1, n - 1)) + 1), LAMBDA X :
                  [W EXCEPT !.P = X.P, !.B = X.B, !.log = X.log]))

\* The integrator sys[i] and its caller's state are as in the run W alone
SameAsAlone(i, W) ==
    /\ prngs[sys[i].prng] = W.P[W.obj.prng]
    /\ (st[i] = NoState) = (W.state = NoState)
    /\ st[i] # NoState => Positions(i) = W.B[W.state.positions]
    /\ bufs[sys[i].noise] = W.B[W.obj.noise]
    /\ bufs[sys[i].gradV] = W.B[W.obj.gradV]
    /\ bufs[sys[i].gradPhi] = W.B[W.obj.gradPhi]

\* The last call, made on sys[op.who], left the objects of sys[j] as they were
Untouched(j) ==
    /\ prngs[sys[j].prng] = op.pre.P[sys[j].prng]
    /\ \A r \in Scratch(sys[j]) : bufs[r] = op.pre.B[r]
    /\ st[j] = op.pre.st[j]
    /\ st[j] # NoState => bufs[st[j].positions] = op.pre.B[st[j].positions]

\* C3: under any interleaving of calls on two integrators each has exactly
\* the trajectory it has running alone, and a call on one leaves the
\* generator, the scratch arrays and the state of the other unchanged.
C3_Isolation ==
    /\ \A i \in Systems : SameAsAlone(i, Alone(hist[i], Len(hist[i])))
    /\ op.name \in {"initialize", "step"} =>
           \A j \in Systems \ {op.who} : Untouched(j)

\* C3 witness: different integrators, both stepped, the calls interleaved
C3_Witness ==
    /\ CallerOf(1) # CallerOf(2)
    /\ StepsOf(hist[1]) >= 1
    /\ StepsOf(hist[2]) >= 1
    /\ op.name = "step"
    /\ op.who = 1
    /\ StepsOf(hist[1]) = 2

\* The begin event of step call c of sys[i]
BeginOf(i, c) == CHOOSE ev \in {log[i][p] : p \in 1..Len(log[i])} :
                     ev.e = "begin" /\ ev.call = c

\* C4: in every step call all N*d noise values are drawn before any gradient
\* is evaluated or any position written (every such event happens 2*N*d
\* uniform draws after the call began, and the events of a run are ordered by
\* call), and the update of particle i, coordinate k uses noise slot i*d + k.
C4_NoiseBatchFirst ==
    \A i \in Systems : \A p \in 1..Len(log[i]) :
        LET ev == log[i][p]
        IN  /\ ev.e # "begin" =>
                  ev.draws = BeginOf(i, ev.call).draws + 2 * sys[i].N * sys[i].d
            /\ ev.e = "write" => ev.slot = ev.i * sys[i].d + ev.k
            /\ p > 1 => /\ log[i][p - 1].draws <= ev.draws
                        /\ log[i][p - 1].call <= ev.call

\* C4 witness: an integrator of several particles in several dimensions that
\* made two steps
C4_Witness ==
    \E i \in Systems :
        /\ sys[i].N >= 2
        /\ sys[i].d >= 2
        /\ StepsOf(hist[i]) >= 2
        /\ \E p \in 1..Len(log[i]) : log[i][p].e = "write" /\ log[i][p].call = 2

\* sigma >= 0, dt > 0, N >= 1, d >= 1
ValidParams(c) == c.sigma >= 0 /\ c.dt > 0 /\ c.N >= 1 /\ c.d >= 1

\* C5: construction with invalid parameters fails at construction, and no
\* integrator with invalid parameters reaches initialize or step.
C5_InvalidConstructionFails ==
    /\ (op.name = "new" /\ ~ValidParams(op.arg)) => ~op.ok
    /\ \A i \in Systems : Calls(i) > 0 => ValidParams(CallerOf(i))

\* C10: initialize(std) makes exactly N*d randn() draws (2*N*d uniform
\* draws) and returns a newly allocated state of length N*d whose slot k holds
\* std times the k-th draw; nothing else changes.
C10_InitializeDraws ==
    op.name = "initialize" =>
        LET S  == sys[op.who]
            g0 == op.pre.P[S.prng]
            n  == S.N * S.d
            s1 == st[op.who]
        IN  /\ prngs[S.prng].draws = g0.draws + 2 * n
            /\ prngs[S.prng] = AfterRandn(g0, n)
            /\ s1.positions \notin 1..Len(op.pre.B)
            /\ s1.N = S.N /\ s1.d = S.d
            /\ Len(bufs[s1.positions]) = n
            /\ \A k \in 1..n : bufs[s1.positions][k] = FMul(op.arg, NthRandn(g0, k))
            /\ \A r \in 1..Len(op.pre.B) : bufs[r] = op.pre.B[r]

\* C10 witness: a second initialize, with std = 2, of an integrator that was
\* stepped, filling several slots
C10_Witness ==
    /\ op.name = "initialize"
    /\ op.arg = 2
    /\ sys[op.who].N * sys[op.who].d >= 2
    /\ StepsOf(hist[op.who]) >= 1
    /\ \E k \in 1..Len(Positions(op.who)) : Positions(op.who)[k] # 0

(***************************************************************************)
(* Claims about simulate and the stream of draws, under SpecSim            *)
(***************************************************************************)
\* The generator reached from g by n uniform draws
RECURSIVE AfterNext(_, _)
AfterNext(g, n) ==
    IF n = 0 THEN g
    ELSE IF n = 1 THEN PrngNext(g).g
    ELSE Strict(AfterNext(g, n \div 2), LAMBDA g1 : AfterNext(g1, n - (n \div 2)))

\* The uniform draws the calls of a history make on an integrator of N
\* particles in d dimensions: 2*N*d per initialize and per step
RECURSIVE DrawsIn(_, _, _)
DrawsIn(h, N, d) ==
    IF Len(h) = 0 THEN 0
    ELSE LET e == h[Len(h)]
         IN  DrawsIn(SubSeq(h, 1, Len(h) - 1), N, d)
             + (IF e.call \in {"initialize", "step"} THEN 2 * N * d
                ELSE IF e.call = "simulate" THEN 2 * N * d * (1 + e.arg.nSteps)
                ELSE 0)

\* C11: after any sequence of initialize, step and simulate calls the
\* generator of an integrator is the generator seeded at construction advanced
\* by the total number of uniform draws of those calls; no call resets it.
C11_StreamNeverReset ==
    \A i \in Systems :
        LET c == CallerOf(i)
            n == DrawsIn(hist[i], c.N, c.d)
            g == AfterNext(NewPRNG(c.seed), n)
        IN  /\ prngs[sys[i].prng].s = g.s
            /\ prngs[sys[i].prng].draws = n
            /\ PrngNext(prngs[sys[i].prng]).val = PrngNext(g).val

\* C11 witness: a second simulate on an instance that was simulated and
\* initialized or stepped before
C11_Witness ==
    /\ op.name = "simulate"
    /\ op.arg >= 1
    /\ \E m \in 2..(Len(hist[1]) - 1) : hist[1][m].call = "simulate"
    /\ Len(hist[1]) = 4
    /\ prngs[sys[1].prng].draws > 0

(***************************************************************************)
(* Claims about the pair terms and the buffers of step, under SpecOne      *)
(* (C13 under Spec)                                                        *)
(***************************************************************************)
\* The events of sys[i]
Events(i) == {log[i][p] : p \in 1..Len(log[i])}

\* C12: no pair term of a step is ever taken for the pair (i, i), and with
\* N = 1 no pair term is taken at all and the mean-field accumulator gradPhi
\* is exactly zero after every step, for radial and vector Phi.
C12_NoSelfInteraction ==
    \A i \in Systems :
        /\ \A ev \in Events(i) : ev.e = "pair" => ev.i # ev.j
        /\ sys[i].N = 1 =>
               /\ \A ev \in Events(i) : ev.e # "pair"
               /\ \A k \in 1..sys[i].d : bufs[sys[i].gradPhi][k] = 0

\* C12 witness: a single-particle integrator with a radial Phi that made two
\* steps and moved
C12_Witness ==
    /\ sys[1].N = 1
    /\ sys[1].Phi.radial
    /\ StepsOf(hist[1]) >= 2
    /\ \E ev \in Events(1) : ev.e = "write" /\ ev.call = 2
    /\ \E k \in 1..Len(Positions(1)) : Positions(1)[k] # 0

\* C13: for a radial Phi, in every step and for every pair i # j, the term
\* added for particle i due to j is the negative of the term added for
\* particle j due to i, coordinate by coordinate.
C13_PairTermsOpposite ==
    \A i \in Systems :
        sys[i].Phi.radial =>
            \A e1 \in Events(i) : \A e2 \in Events(i) :
                (/\ e1.e = "term" /\ e2.e = "term"
                 /\ e1.call = e2.call
                 /\ e1.i = e2.j /\ e1.j = e2.i)
                => \A k \in 1..sys[i].d : e2.val[k] = FNeg(e1.val[k])

(***************************************************************************)
(* Claims about the Lennard-Jones potential, under SpecPot                 *)
(***************************************************************************)
\* C14: evaluate(r) and gradient(r) return exactly 0 for every r >= rCut,
\* and for r < rCut evaluate returns
\* 4 epsilon ((sigmaLJ/rc)^12 - (sigmaLJ/rc)^6) - shift with rc = max(r, rSafe),
\* shift being the same expression at rCut.
C14_CutoffAndShiftedFormula ==
    op.name \in {"evaluate", "gradient"} =>
        LET lj == sys[1]
            r  == op.arg
            rc == IF r >= lj.rSafe THEN r ELSE lj.rSafe
            at(x) == LET q == Pow6(XDiv(lj.sigmaLJ, x))
                     IN  XMul(XMul(Num(4), lj.epsilon), FSub(XMul(q, q), q))
        IN  /\ r >= lj.rCut => op.ret = 0
            /\ (op.name = "evaluate" /\ r < lj.rCut) =>
                   op.ret = FSub(at(rc), at(lj.rCut))

\* C14 witness: a gradient call at a distance beyond the cutoff, and beyond
\* the clamp radius
C14_Witness ==
    /\ op.name = "gradient"
    /\ op.arg > sys[1].rCut
    /\ op.arg > sys[1].rSafe
    /\ op.ret = 0

\* C15: gradient is the derivative of evaluate on the whole domain; in
\* particular where Lennard-Jones' evaluate is constant, from r to the next
\* distance below the clamp radius rSafe (and the cutoff), gradient(r) is zero.
C15_GradientZeroWhereConstant ==
    op.name = "gradient" =>
        LET lj == sys[1]
            r  == op.arg
        IN  (/\ r + RStep <= lj.rSafe
             /\ r + RStep < lj.rCut
             /\ LJEvaluate(lj, r) = LJEvaluate(lj, r + RStep))
            => op.ret = 0

\* C16: step(state) writes into the caller's position array and never
\* replaces or resizes it: after any number of steps the state refers to the
\* same array, of length N*d, with the same N and d; every write of the step
\* went into that array and the step allocated no array.
C16_StepInPlace ==
    /\ \A i \in Systems :
           st[i] # NoState =>
               /\ Len(bufs[st[i].positions]) = sys[i].N * sys[i].d
               /\ st[i].N = sys[i].N /\ st[i].d = sys[i].d
    /\ op.name = "step" =>
           /\ st[op.who] = op.pre.st[op.who]
           /\ \A ev \in Events(op.who) :
                  (ev.e = "write" /\ ev.call = StepsOf(hist[op.who]))
                  => ev.buf = op.pre.st[op.who].positions
           /\ Len(bufs) = Len(op.pre.B)
           /\ \A r \in 1..Len(bufs) : Len(bufs[r]) = Len(op.pre.B[r])

\* C16 witness: a second step that changed the contents of a state array of
\* four slots
C16_Witness ==
    /\ op.name = "step"
    /\ StepsOf(hist[op.who]) >= 2
    /\ Len(Positions(op.who)) >= 4
    /\ Positions(op.who) # op.pre.B[st[op.who].positions]

\* The heap B with every scratch array of S filled with x
Junk(S, B, x) ==
    [r \in 1..Len(B) |-> IF r \in Scratch(S) THEN [k \in 1..Len(B[r]) |-> x] ELSE B[r]]

\* C17: the result of step(state) depends only on the state's positions, the
\* generator and the configuration: had the scratch arrays held anything else
\* before the call (other numbers, or NaN), the positions and the generator
\* after the call would be the same.
C17_ScratchNeverRead ==
    op.name = "step" =>
        LET S   == sys[op.who]
            pos == st[op.who].positions
        IN  \A x \in {7, NaN} :
                LET X == Step(S, [P |-> op.pre.P, B |-> Junk(S, op.pre.B, x),
                                  log |-> <<>>], op.pre.st[op.who], 1)
                IN  /\ X.B[pos] = bufs[pos]
                    /\ X.P[S.prng] = prngs[S.prng]

\* C17 witness: a step of an integrator of several particles whose scratch
\* arrays held the nonzero leftovers of an earlier step
C17_Witness ==
    /\ op.name = "step"
    /\ sys[op.who].N >= 2
    /\ StepsOf(hist[op.who]) >= 2
    /\ \A r \in {sys[op.who].gradV, sys[op.who].diff, sys[op.who].noise} :
           \E k \in 1..Len(op.pre.B[r]) : op.pre.B[r][k] # 0
    /\ Positions(op.who) # op.pre.B[st[op.who].positions]

\* The position contents after 0, 1, ..., n steps, and the generator after
\* the n-th, when the caller calls initialize(std) once and then step n
\* times, starting from the heap P, B
RECURSIVE ManualFrom(_, _, _, _, _)
ManualFrom(S, X, state, trace, n) ==
    IF n = 0 THEN [trace |-> trace, g |-> X.P[S.prng]]
    ELSE Strict(Step(S, X, state, 1), LAMBDA X1 :
         Strict(Append(trace, X1.B[state.positions]), LAMBDA t1 :
             ManualFrom(S, [X1 EXCEPT !.log = <<>>], state, t1, n - 1)))

Manual(S, P, B, std, n) ==
    Strict(Initialize(S, P, B, std), LAMBDA r :
        ManualFrom(S, [P |-> r.P, B |-> r.B, log |-> <<>>], r.state,
                   <<r.B[r.state.positions]>>, n))

\* The manual run that corresponds to the simulate call just made
ManualOfCall == Manual(sys[op.who], op.pre.P, op.pre.B, CallerOf(op.who).std, op.arg)

\* The trajectory of the simulate call just made starts with the initial
\* state and, for nSteps >= 1, ends with the state after nSteps steps of the
\* manual run M; its step counts increase strictly; its arrays are new
EndsAsManual(traj, n, M) ==
    /\ Len(traj) >= 1
    /\ traj[1].after = 0
    /\ bufs[traj[1].positions] = M.trace[1]
    /\ n >= 1 => /\ traj[Len(traj)].after = n
                 /\ bufs[traj[Len(traj)].positions] = M.trace[n + 1]
    /\ n = 0 => Len(traj) = 1
    /\ \A m \in 2..Len(traj) : traj[m - 1].after < traj[m].after
    /\ \A m \in 1..Len(traj) :
           /\ traj[m].positions \notin 1..Len(op.pre.B)
           /\ traj[m].N = sys[op.who].N /\ traj[m].d = sys[op.who].d
           /\ \A m2 \in 1..Len(traj) :
                  m # m2 => traj[m].positions # traj[m2].positions

\* C18: simulate(nSteps, initStd) returns a sequence whose first element is
\* the initial state and, for nSteps >= 1, whose last element is the state
\* after exactly nSteps steps; the recorded step counts increase strictly (no
\* step's state is recorded twice); for nSteps = 0 it is just the initial state.
\* Every element is a new array of its own.
C18_TrajectoryEnds ==
    op.name = "simulate" =>
        Strict(ManualOfCall, LAMBDA M : EndsAsManual(op.ret, op.arg, M))

\* C18 witness: a simulate whose final step is also a periodic recording
\* (nSteps = 11), and whose final state differs from its initial one
C18_Witness ==
    /\ op.name = "simulate"
    /\ op.arg = 11
    /\ Len(op.ret) = 3
    /\ bufs[op.ret[1].positions] # bufs[op.ret[3].positions]

\* C19: for every k with 1 <= k <= nSteps that is a multiple of 10, the
\* state after the k-th step is in the sequence simulate returns.
C19_EveryTenthStepRecorded ==
    op.name = "simulate" =>
        \A k \in 1..op.arg :
            k % 10 = 0 => \E m \in 1..Len(op.ret) : op.ret[m].after = k

\* Every snapshot of the trajectory holds the positions of the manual run M
\* after as many steps, and the generator is where M left it
SnapshotsAsManual(traj, M) ==
    /\ \A m \in 1..Len(traj) :
           bufs[traj[m].positions] = M.trace[traj[m].after + 1]
    /\ prngs[sys[op.who].prng] = M.g

\* C20: every snapshot simulate records for step count k holds the positions
\* reached by calling initialize(initStd) once and then step k times from the
\* same generator state, and simulate leaves the generator where that manual
\* sequence with k = nSteps leaves it.
C20_SimulateIsInitializeAndSteps ==
    op.name = "simulate" =>
        Strict(ManualOfCall, LAMBDA M : SnapshotsAsManual(op.ret, M))

\* C20 witness: a simulate of two particles that recorded an intermediate
\* and a final snapshot, on an integrator whose generator had been used
C20_Witness ==
    /\ op.name = "simulate"
    /\ op.arg >= 2
    /\ Len(op.ret) = 3
    /\ sys[op.who].N = 2
    /\ op.pre.P[sys[op.who].prng].draws > 0
    /\ bufs[op.ret[2].positions] # bufs[op.ret[3].positions]

(***************************************************************************)
(* C21, C30: the potential explorer                                        *)
(***************************************************************************)
\* What initModel leaves of the page's variables and of the integrators
Selected(H) == <<H.page.currentModel, H.page.system, H.page.state, H.sys, H.st>>

\* An integrator on the model under key K, newly constructed with seed 42 and
\* initialized once
FreshOn(K) ==
    LET S == sys[page.system]
        r == NewParticleSystem(<<>>, <<>>,
                 Caller(MODELS[K].V, MODELS[K].Phi, MODELS[K].sigma, ExplorerDt,
                        ExplorerN, 2, 42, ExplorerStd))
        f == Initialize(r.obj, r.P, r.B, ExplorerStd)
    IN  /\ page.system = Len(op.pre.sys) + 1
        /\ S.V = MODELS[K].V /\ S.Phi = MODELS[K].Phi /\ S.sigma = MODELS[K].sigma
        /\ page.state = st[page.system]
        /\ prngs[S.prng] = f.P[r.obj.prng]
        /\ bufs[page.state.positions] = f.B[f.state.positions]

\* C21: selecting a key that is in the registry MODELS makes it the current
\* model and replaces the integrator by a new one on that model's V, Phi and
\* sigma (seed 42) with a freshly initialized state; selecting a key that is
\* not in the registry leaves the current model, the integrator and the state
\* as they were.
C21_LookupSelectsOrIgnores ==
    op.name = "initModel" =>
        IF op.arg \in DOMAIN MODELS
        THEN page.currentModel = op.arg /\ FreshOn(op.arg)
        ELSE Selected(Heap) = Selected(op.pre)

\* C30: at any time exactly one drawSim callback is pending, and every frame
\* steps the current integrator with the state this integrator's initialize
\* produced.
C30_OneLoopOwnState ==
    /\ page.pending = 1
    /\ page.last.system # 0 =>
           /\ page.last.state = st[page.last.system]
           /\ op.name = "drawSim" => page.last.system = page.system

(***************************************************************************)
(* C22, C23, C27 (SpecOne): the mean field, coincident particles, draws    *)
(***************************************************************************)
\* The sum over the first p events of log l of the k-th coordinate of the
\* pair terms of particle i in step call c
RECURSIVE TermSum(_, _, _, _, _)
TermSum(l, p, c, i, k) ==
    IF p = 0 THEN 0
    ELSE LET ev == l[p]
         IN  IF ev.e = "term" /\ ev.call = c /\ ev.i = i
             THEN FAdd(TermSum(l, p - 1, c, i, k), ev.val[k])
             ELSE TermSum(l, p - 1, c, i, k)

\* The partners j of the pair terms of particle i in step call c, as a bag:
\* how many terms were taken for the pair (i, j)
TermsWith(l, c, i, j) ==
    Cardinality({p \in 1..Len(l) : l[p].e = "term" /\ l[p].call = c
                                   /\ l[p].i = i /\ l[p].j = j})

\* grad V at particle i's position before the step, coordinate k (1-based)
GradVBefore(S, B, state, i, k) ==
    LET xi == GetParticle(S, B, state, i)
    IN  VGradient(S.V, B, xi, Whole(B, S.gradV))[S.gradV][k]

\* C22: in a step, particle i's mean field is the sum of the pair terms over
\* exactly the N - 1 indices j # i, each once, divided by N, and its position
\* changes by (-gradV - meanField) * dt + sigma * sqrt(dt) * noise per
\* coordinate.
C22_MeanFieldOverN ==
    op.name = "step" =>
        LET S == sys[op.who]
            c == StepsOf(hist[op.who])
            l == log[op.who]
            state == st[op.who]
        IN  \A i \in 0..(S.N - 1) :
                /\ \A j \in 0..(S.N - 1) :
                       TermsWith(l, c, i, j) = IF j = i THEN 0 ELSE 1
                /\ \A k \in 1..S.d :
                       LET meanField == FDiv(TermSum(l, Len(l), c, i, k), S.N)
                           gradV == GradVBefore(S, op.pre.B, state, i, k)
                           noise == bufs[S.noise][i * S.d + k]
                           slot  == i * S.d + k
                       IN  bufs[state.positions][slot]
                           = FAdd(op.pre.B[state.positions][slot],
                                  FAdd(FMul(FSub(FNeg(gradV), meanField), S.dt),
                                       FMul(FMul(S.sigma, FSqrt(S.dt)), noise)))

\* C22 witness: a step of three particles in which a sum of two pair terms
\* is not zero and its third differs from its half
C22_Witness ==
    /\ op.name = "step"
    /\ sys[op.who].N = 3
    /\ \E i \in 0..2 : \E k \in 1..sys[op.who].d :
           LET t == TermSum(log[op.who], Len(log[op.who]), StepsOf(hist[op.who]), i, k)
           IN  t # 0 /\ t # NaN /\ FDiv(t, 3) # FDiv(t, 2)

\* Particle j's k-th coordinate at the time particle i's pair terms are
\* taken in the step just made: the particles before i have moved already
AtPairTime(S, state, i, j, k) ==
    IF j < i THEN bufs[state.positions][j * S.d + k]
    ELSE op.pre.B[state.positions][j * S.d + k]

\* Particles i and j were at the same position when the term of i due to j
\* was taken
Coincided(S, state, i, j) ==
    \A k \in 1..S.d : AtPairTime(S, state, i, i, k) = AtPairTime(S, state, i, j, k)

Finite(arr) == \A p \in 1..Len(arr) : arr[p] # NaN

C24_BranchFixedAtConstruction ==
    \A i \in Systems :
        \A ev \in Events(i) :
            ev.e = "branch" => ev.val = <<CallerOf(i).Phi.radial>>

(***************************************************************************)
(* C25 (SpecShuffle): the shuffle demo                                     *)
(***************************************************************************)
IsPermutation(m) ==
    /\ DOMAIN m = 1..ShuffleN
    /\ {m[i] : i \in 1..ShuffleN} = 0..(ShuffleN - 1)

C25_Always ==
    /\ IsPermutation(page.matching)
    /\ ~page.shuffled => page.matching = Identity
    /\ page.animProgress >= 0 /\ page.animProgress <= AnimDone
    /\ (op.name = "click" /\ op.pre.animProgress < AnimDone) => page = op.pre

\* A click that was accepted (the animation had finished)
Accepted == op.name = "click" /\ op.pre.animProgress >= AnimDone

\* C25: matching is always a permutation of 0..N-1 and is the identity
\* whenever shuffled is false, a click while animProgress < 1 changes
\* nothing, animProgress stays within [0, 1], and after an accepted click it
\* reaches 1 after finitely many frames.
C25_ShuffleDemo == []C25_Always /\ (Accepted ~> page.animProgress = AnimDone)

\* C25 witness: the animation of a shuffle that moved a label has just
\* finished with a frame
C25_Witness ==
    /\ page.shuffled
    /\ page.matching # Identity
    /\ page.animProgress = AnimDone
    /\ op.name = "draw"
    /\ op.pre.animProgress < AnimDone

(***************************************************************************)
(* C26 (SpecPRNG): the generator never stalls                              *)
(***************************************************************************)
\* C26: the four-word state of a seeded generator is never all zero, after
\* any number of next() calls.
C26_StateNeverAllZero ==
    \A n \in 0..MaxAhead : ~AllZero(AfterNext(prngs[1], n).s)

\* C26 witness: a generator that has been drawn from, seeded with a seed
\* that zeroes one of its state words
C26_Witness ==
    /\ prngs[1].draws >= 4
    /\ hist[1][1].arg \in ZeroingSeeds
    /\ \E w \in 1..4 : NewPRNG(hist[1][1].arg).s[w] = ZeroWord
    /\ prngs[1].s # NewPRNG(hist[1][1].arg).s

(***************************************************************************)
(* C27 (SpecOne): the draws of a step                                      *)
(***************************************************************************)
\* How many calls named `call` a history holds
CountOf(h, call) == Cardinality({p \in 1..Len(h) : h[p].call = call})

\* C27: every step makes exactly N * d standard-normal draws, i.e. 2 * N * d
\* uniform draws, whatever sigma, N, the positions and the kind of Phi, so
\* after initialize and s steps the generator has made 2 * N * d * (s + 1)
\* uniform draws.
C27_DrawsPerStep ==
    /\ op.name = "step" =>
           LET S == sys[op.who]
           IN  prngs[S.prng].draws = op.pre.P[S.prng].draws + 2 * S.N * S.d
    /\ \A i \in Systems :
           CountOf(hist[i], "initialize") = 1 =>
               prngs[sys[i].prng].draws
               = 2 * sys[i].N * sys[i].d * (CountOf(hist[i], "step") + 1)

\* C27 witness: the second step of a single particle without noise
\* (sigma = 0) after one initialize
C27_Witness ==
    /\ op.name = "step"
    /\ sys[op.who].sigma = 0
    /\ sys[op.who].N = 1
    /\ CountOf(hist[op.who], "initialize") = 1
    /\ CountOf(hist[op.who], "step") = 2

(***************************************************************************)
(* C28 (SpecSim): the snapshots of simulate                                *)
(***************************************************************************)
\* The array that the initialize inside the simulate call just made
\* allocated: the state that simulate steps
LiveArray == Len(op.pre.B) + 1

\* C28: every snapshot simulate returns is an independent copy: no two
\* snapshots share an array with each other, with the state that simulate
\* steps or with any array that existed before, and the steps made after the
\* first snapshot was recorded have not changed it.
C28_SnapshotsAreCopies ==
    op.name = "simulate" =>
        LET traj == op.ret
            S    == sys[op.who]
            f    == Initialize(S, op.pre.P, op.pre.B, CallerOf(op.who).std)
        IN  /\ \A m \in 1..Len(traj) :
                   /\ traj[m].positions > LiveArray
                   /\ traj[m].positions <= Len(bufs)
                   /\ \A n \in 1..Len(traj) :
                          m # n => traj[m].positions # traj[n].positions
            /\ bufs[traj[1].positions] = f.B[f.state.positions]

\* C28 witness: a simulate that returned three snapshots with different
\* contents, the state having moved on after each
C28_Witness ==
    /\ op.name = "simulate"
    /\ Len(op.ret) = 3
    /\ bufs[op.ret[1].positions] # bufs[op.ret[2].positions]
    /\ bufs[op.ret[2].positions] # bufs[op.ret[3].positions]
    /\ bufs[op.ret[1].positions] # bufs[LiveArray]

(***************************************************************************)
(* C29 (SpecDash): the results dashboard                                   *)
(***************************************************************************)
\* No request is in flight
Settled == \A f \in 1..Len(page.fetches) : page.fetches[f].stage = "done"

\* Every request made so far delivered rows
AllDelivered == \A f \in 1..Len(page.fetches) : page.fetches[f].outcome = "rows"

\* C29: whatever the order of clicks and responses, a heatmap that is shown
\* was built from the data file of the table requested with that table's
\* renderer, and once no request is in flight (each having delivered its
\* rows) the heatmap of the currently selected table is shown: a late
\* response for an earlier selection never overwrites it.
C29_HeatmapOfSelectedTable ==
    /\ page.shown.kind = "heatmap" => page.shown.renderer = RendererFor(page.shown.data)
    /\ (Settled /\ AllDelivered) =>
           page.shown = [kind |-> "heatmap", data |-> page.currentTable,
                         renderer |-> RendererFor(page.currentTable)]

=============================================================================
